---- MODULE Spec2Model ----
(***************************************************************************)
(* gh_cherry: the cherry-pick engine.                                      *)
(*                                                                         *)
(*   repo      GitOperations.repo, the git2::Repository (src/git/mod.rs)   *)
(*   App       the key-event loop and cherry_pick_pr (src/ui/app.rs)       *)
(*   AppState  screens, list selection and messages (src/ui/state.rs)      *)
(*   GitHub    labels and comments of the pull requests (src/github/mod.rs)*)
(*                                                                         *)
(* The specifications share the variables:                                 *)
(*   Spec      the application: run, handle_key_event, cherry_pick_pr      *)
(*   SpecGit   the GitOperations methods under an arbitrary caller         *)
(*   SpecMatch pr_matches_criteria over bounded label lists                *)
(*   SpecList  list_matching_prs, one remote request per step              *)
(*   SpecListFair SpecList with every request answered                     *)
(*   SpecLabels update_pr_labels run repeatedly on one pull request        *)
(*   SpecCore  a run of the application or a run of list_matching_prs      *)
(*   SpecStatus is_clean while the operator writes, stages, removes files *)
(*   SpecTemplate render_branch_name over bounded templates and task ids   *)
(*   SpecEnv   Config::load over bounded config files and cherry.env files *)
(*   SpecSelect ListState under any sequence of its three mutators         *)
(*   SpecMessages the message setters of AppState in any order            *)
(*   SpecSelector run_selector, one key press per step                     *)
(*   SpecComment a run of the application, or one add_cherry_pick_comment  *)
(*             over identifiers of every length                            *)
(*                                                                         *)
(* What libgit2 does inside a call (whether the commit is found, whether   *)
(* the replay conflicts, which RepositoryState it leaves) is not decided   *)
(* by this repository: every such outcome is an input of the action,       *)
(* drawn from the values the code distinguishes.                           *)
(***************************************************************************)
EXTENDS Integers, Sequences, FiniteSets, TLC

\* ------------------------------------------------------------------ bounds
MaxCommitsPerPr == 3   \* commits of the largest pull request
MaxOdb == 5            \* commit objects in the repository (Spec)
MaxRuns == 2           \* times cherry_pick_pr is entered (Spec)
MaxLabels == 3         \* labels on a pull request (SpecMatch)
MaxCalls == 3          \* GitOperations calls of one SpecGit run

\* --------------------------------------------------------------- constants
None == 0              \* Option::None of a commit id

VARIABLES
    repo,            \* the git2::Repository behind GitOperations
    result,          \* the value the last GitOperations call returned
    last_call,       \* SpecGit: the GitOperations call made last, its inputs
    ncalls,          \* SpecGit: calls made so far; Spec: cherry_pick_pr runs
    apply_base,      \* SpecGit: branch tip when the last conflicting apply began
    state,           \* App.state : AppState
    should_quit,     \* App.should_quit
    pc,              \* where run / cherry_pick_pr stands
    job,             \* locals of the running cherry_pick_pr
    calls,           \* the calls the running cherry_pick_pr has made
    github,          \* remote side: labels and comments per pull request
    match_in,        \* SpecMatch, SpecEnv, SpecTemplate: the arguments
    match_out,       \* SpecMatch, SpecEnv, SpecTemplate: the return value
    scan,            \* SpecList: the locals of the running list_matching_prs
    applied          \* history: the pull requests cherry_pick_pr has
                     \* succeeded for since the list was last loaded

vars == <<repo, result, last_call, ncalls, apply_base, state, should_quit, pc,
          job, calls, github, match_in, match_out, scan, applied>>

\* ======================================================================
\* git2 values
\* ======================================================================

\* git2::RepositoryState as far as cherry_pick tells the values apart:
\* Clean, CherryPickSequence, and one representative of every other state.
RepositoryStates == {"Clean", "CherryPick", "CherryPickSequence"}

\* The paths a replay can leave in conflict, in index order.
Paths == {1, 2}

\* The conflicts of an index: path -> whether the entry has an "our" side.
ConflictSets == UNION {[S -> BOOLEAN] : S \in SUBSET Paths}

NoConflicts == [p \in {} |-> TRUE]

\* CherrypickResult inside Result<_>: ok = FALSE is Err(error).
Err(e) == [ok |-> FALSE, error |-> e, success |-> FALSE, conflicts |-> << >>,
           commit_sha |-> None]

OkResult(success, conflicts, sha) ==
    [ok |-> TRUE, error |-> "", success |-> success, conflicts |-> conflicts,
     commit_sha |-> sha]

\* Ok(()) and Ok(String) of the other methods.
OkUnit == OkResult(TRUE, << >>, None)

\* The commits of pull request n on the base branch: 10n+1, 10n+2, ...
ShaOf(n, k) == 10 * n + k

\* commit.message(): None when the message is not UTF-8 (here: every third
\* commit of a pull request), else the text.
MessageIsUtf8(sha) == sha % 10 # 3

OriginalMessage(sha) == <<"original", sha>>

\* The ascending sequence of the elements of a set of numbers.
RECURSIVE SortedSeq(_)
SortedSeq(S) ==
    IF S = {} THEN << >>
    ELSE LET m == CHOOSE x \in S : \A y \in S : x <= y
         IN <<m>> \o SortedSeq(S \ {m})

\* ======================================================================
\* GitOperations (src/git/mod.rs)
\* ======================================================================

Tip(r) == r.branches[r.head]

TreeOf(r, id) == r.odb[id].tree

\* The tree of HEAD; empty while the branch of HEAD has no commit yet.
HeadTree(r) ==
    IF r.head \in DOMAIN r.branches THEN TreeOf(r, Tip(r)) ELSE {}

\* index.has_conflicts()
has_conflicts(r) == DOMAIN r.index.conflicts # {}

\* Mutant of statuses: files the index does not know are left out.
statuses_tracked(r) ==
    (r.index.tree \ HeadTree(r)) \cup (HeadTree(r) \ r.index.tree)
    \cup (r.index.tree \ r.workdir.tree)
    \cup r.workdir.marks \cup DOMAIN r.index.conflicts

\* repo.statuses(None): the paths that differ between HEAD and the index
\* or between the index and the working directory (untracked files
\* included), and the conflicted ones.
statuses(r) ==
    (r.index.tree \ HeadTree(r)) \cup (HeadTree(r) \ r.index.tree)
    \cup (r.workdir.tree \ r.index.tree) \cup (r.index.tree \ r.workdir.tree)
    \cup r.workdir.marks \cup DOMAIN r.index.conflicts

\* GitOperations::is_clean: statuses.is_empty()
is_clean(r) == statuses(r) = {}

\* get_signature: user.name and user.email must both be configured.
get_signature(r) == r.identity

\* repo.commit(Some("HEAD"), sig, sig, message, tree, [parent]) with the
\* tree written from the index and the parent peeled from HEAD.
Commit(r, message) ==
    LET id == Len(r.odb) + 1
    IN [r EXCEPT !.odb = Append(@, [parent |-> Tip(r), message |-> message,
                                    tree |-> r.index.tree]),
                 !.branches = [@ EXCEPT ![r.head] = id]]

\* repo.cleanup_state(): removes CHERRY_PICK_HEAD, MERGE_MSG, the sequencer.
cleanup_state(r) == [r EXCEPT !.state = "Clean"]

\* commit.message().unwrap_or("Cherry-pick")
CommitMessage(sha) ==
    IF MessageIsUtf8(sha) THEN OriginalMessage(sha) ELSE <<"Cherry-pick", 0>>

\* get_conflicts: the paths of the conflicts that have an "our" entry, in
\* index order.
get_conflicts(r) ==
    IF has_conflicts(r)
    THEN SortedSeq({p \in DOMAIN r.index.conflicts : r.index.conflicts[p]})
    ELSE << >>

\* Oid::from_str(commit_sha) fails on text that is not a hexadecimal id;
\* BadSha is such a text.
BadSha == -1
IsOid(sha) == sha # BadSha

\* What one cherry_pick call can meet inside libgit2.
\*   not_found      repo.find_commit fails
\*   replay_failed  repo.cherrypick fails; libgit2's error path may remove
\*                  the cherry-pick metadata (cleaned)
\*   replayed       repo.cherrypick returns Ok; repo.state() then reports
\*                  `state` and the index holds `conflicts` (a replay that
\*                  leaves conflicts never leaves the repository Clean)
LibOutcomes ==
    [kind : {"not_found"},
     state : {"Clean"}, conflicts : {NoConflicts}, cleaned : {FALSE}]
    \cup
    [kind : {"replay_failed"},
     state : {"Clean"}, conflicts : {NoConflicts}, cleaned : BOOLEAN]
    \cup
    {l \in [kind : {"replayed"}, state : RepositoryStates,
            conflicts : ConflictSets, cleaned : {FALSE}] :
        l.state = "Clean" => l.conflicts = NoConflicts}

NoLib == [kind |-> "none", state |-> "Clean", conflicts |-> NoConflicts,
          cleaned |-> FALSE]

\* repo.cherrypick(&commit, opts) returning Ok: the commit's changes are in
\* the index and the working copy, the conflicting paths are recorded in
\* the index and marked in the files, HEAD is not moved.
Replay(r, sha, lib) ==
    [r EXCEPT !.index = [tree |-> @.tree \cup {sha},
                         conflicts |-> lib.conflicts @@ @.conflicts],
              !.workdir = [tree |-> @.tree \cup {sha},
                           marks |-> @.marks \cup DOMAIN lib.conflicts],
              !.state = lib.state]

\* Mutant of cherry_pick: a state other than Clean is taken for a conflict.
cherry_pick_any_conflict(r, commit_sha, lib) ==
    IF ~IsOid(commit_sha)
    THEN [repo |-> r, result |-> Err("Invalid commit SHA")]
    ELSE IF lib.kind = "not_found"
    THEN [repo |-> r, result |-> Err("Commit not found")]
    ELSE IF lib.kind = "replay_failed"
    THEN [repo |-> IF lib.cleaned THEN cleanup_state(r) ELSE r,
          result |-> Err("Failed to cherry-pick commit")]
    ELSE LET replayed == Replay(r, commit_sha, lib)
         IN IF replayed.state = "Clean"
            THEN IF ~get_signature(replayed)
                 THEN [repo |-> replayed,
                       result |-> Err("Git user.name not configured")]
                 ELSE IF has_conflicts(replayed)
                 THEN [repo |-> replayed, result |-> Err("write_tree")]
                 ELSE LET done == Commit(replayed, CommitMessage(commit_sha))
                      IN [repo |-> done,
                          result |-> OkResult(TRUE, << >>, Tip(done))]
            ELSE [repo |-> replayed,
                  result |-> OkResult(FALSE, get_conflicts(replayed), None)]

\* GitOperations::cherry_pick
cherry_pick(r, commit_sha, lib) ==
    IF ~IsOid(commit_sha)
    THEN [repo |-> r, result |-> Err("Invalid commit SHA")]
    ELSE IF lib.kind = "not_found"
    THEN [repo |-> r, result |-> Err("Commit not found")]
    ELSE IF lib.kind = "replay_failed"
    THEN [repo |-> IF lib.cleaned THEN cleanup_state(r) ELSE r,
          result |-> Err("Failed to cherry-pick commit")]
    ELSE LET replayed == Replay(r, commit_sha, lib)
         IN CASE replayed.state = "Clean" ->
                   IF ~get_signature(replayed)
                   THEN [repo |-> replayed,
                         result |-> Err("Git user.name not configured")]
                   ELSE IF has_conflicts(replayed)
                   THEN [repo |-> replayed, result |-> Err("write_tree")]
                   ELSE LET done == Commit(replayed, CommitMessage(commit_sha))
                        IN [repo |-> done,
                            result |-> OkResult(TRUE, << >>, Tip(done))]
              [] replayed.state = "CherryPickSequence" ->
                   [repo |-> replayed,
                    result |-> OkResult(FALSE, get_conflicts(replayed), None)]
              [] OTHER ->
                   [repo |-> replayed,
                    result |-> Err("Unexpected repository state after cherry-pick")]

\* Mutant of continue_cherry_pick: the has_conflicts check is missing.
continue_unchecked(r, commit_message) ==
    LET staged == [r EXCEPT !.index = [tree |-> r.workdir.tree,
                                       conflicts |-> NoConflicts]]
        message == IF commit_message = << >>
                   THEN <<"Cherry-pick (resolved conflicts)", 0>>
                   ELSE commit_message
    IN IF ~get_signature(staged)
       THEN [repo |-> staged, result |-> Err("Git user.name not configured")]
       ELSE LET done == cleanup_state(Commit(staged, message))
            IN [repo |-> done, result |-> OkResult(TRUE, << >>, Tip(done))]

\* GitOperations::continue_cherry_pick; message = << >> is None.
continue_cherry_pick(r, commit_message) ==
    IF has_conflicts(r)
    THEN [repo |-> r, result |-> Err("There are still unresolved conflicts")]
    ELSE LET staged == [r EXCEPT !.index = [tree |-> r.workdir.tree,
                                            conflicts |-> NoConflicts]]
             message == IF commit_message = << >>
                        THEN <<"Cherry-pick (resolved conflicts)", 0>>
                        ELSE commit_message
         IN IF ~get_signature(staged)
            THEN [repo |-> staged, result |-> Err("Git user.name not configured")]
            ELSE LET done == cleanup_state(Commit(staged, message))
                 IN [repo |-> done, result |-> OkResult(TRUE, << >>, Tip(done))]

\* Mutant of ResetHard: a mixed reset, which leaves the working copy.
ResetMixed(r) ==
    [r EXCEPT !.index = [tree |-> r.odb[r.branches[r.head]].tree,
                         conflicts |-> NoConflicts]]

\* repo.reset(head, ResetType::Hard, None)
ResetHard(r) ==
    [r EXCEPT !.index = [tree |-> HeadTree(r), conflicts |-> NoConflicts],
              !.workdir = [tree |-> HeadTree(r), marks |-> {}]]

\* GitOperations::abort_cherry_pick
abort_cherry_pick(r) ==
    [repo |-> ResetHard(cleanup_state(r)), result |-> OkUnit]

\* Mutant of create_tracking_branch: the local branch starts at HEAD.
create_tracking_branch_at_head(r, branch_name) ==
    IF branch_name \in DOMAIN r.remotes
    THEN [ok |-> TRUE,
          repo |-> [r EXCEPT !.branches = (branch_name :> Tip(r)) @@ @,
                             !.tracking = @ \cup {branch_name}]]
    ELSE [ok |-> FALSE, repo |-> r]

\* create_tracking_branch: a local branch at the commit of origin/<name>,
\* configured to track it; fails when origin/<name> does not exist.
create_tracking_branch(r, branch_name) ==
    IF branch_name \in DOMAIN r.remotes
    THEN [ok |-> TRUE,
          repo |-> [r EXCEPT !.branches = (branch_name :> r.remotes[branch_name]) @@ @,
                             !.tracking = @ \cup {branch_name}]]
    ELSE [ok |-> FALSE, repo |-> r]

\* repo.checkout_tree(commit, None): the safe strategy. Files that differ
\* between HEAD and the target are rewritten unless a local modification
\* is in the way (blocked); local modifications elsewhere are kept.
checkout_tree(r, commit, blocked) ==
    LET target == TreeOf(r, commit)
        base == HeadTree(r)
    IN IF target = base THEN [ok |-> TRUE, repo |-> r]
       ELSE IF ~is_clean(r) /\ blocked THEN [ok |-> FALSE, repo |-> r]
       ELSE [ok |-> TRUE,
             repo |-> [r EXCEPT !.index.tree = target \cup (@ \ base),
                                !.workdir.tree = target \cup (@ \ base)]]

\* GitOperations::checkout_branch
checkout_branch(r, branch_name, blocked) ==
    LET found == branch_name \in DOMAIN r.branches
        tracked == create_tracking_branch(r, branch_name)
    IN IF ~found /\ ~tracked.ok
       THEN [repo |-> r, result |-> Err("Branch not found")]
       ELSE LET r1 == IF found THEN r ELSE tracked.repo
                co == checkout_tree(r1, r1.branches[branch_name], blocked)
            IN IF ~co.ok
               THEN [repo |-> r1, result |-> Err("Failed to checkout tree")]
               ELSE [repo |-> [co.repo EXCEPT !.head = branch_name],
                     result |-> OkUnit]

\* ======================================================================
\* The repository a run starts on
\* ======================================================================

TargetBranch == "target"

BranchNames == {"main", TargetBranch, "missing"}

\* The branch argument recorded for a call that has none.
NoBranch == ""

\* A working copy on main, quiescent; the target branch exists locally,
\* at origin, at both or nowhere; the committer identity is set or not.
InitRepo(local, remote, identity) ==
    [head |-> "main",
     branches |-> IF local THEN ("main" :> 1) @@ (TargetBranch :> 2)
                  ELSE ("main" :> 1),
     remotes |-> IF remote THEN (TargetBranch :> 2) ELSE [b \in {} |-> 0],
     tracking |-> {},
     odb |-> << [parent |-> None, message |-> <<"init", 0>>, tree |-> {}],
                [parent |-> 1, message |-> <<"release", 0>>, tree |-> {0}] >>,
     index |-> [tree |-> {}, conflicts |-> NoConflicts],
     workdir |-> [tree |-> {}, marks |-> {}],
     state |-> "Clean",
     identity |-> identity]

\* The commits a caller can ask for.
Shas == {ShaOf(1, 1), ShaOf(1, 3), BadSha}

\* The messages a caller passes to continue_cherry_pick (<< >> is None).
Messages == {<< >>, <<"custom", 1>>}

\* Variables a specification does not use keep these values.
Idle == [on |-> FALSE]

\* ======================================================================
\* SpecGit: the GitOperations methods under an arbitrary caller
\* ======================================================================

GitVars == <<repo, result, last_call, ncalls, apply_base>>
AppVars == <<state, should_quit, pc, job, calls, github>>
MatchVars == <<match_in, match_out>>
ListVars == <<scan>>
HistVars == <<applied>>

InitGit ==
    /\ repo \in {InitRepo(FALSE, TRUE, i) : i \in BOOLEAN}
    /\ result = OkUnit
    /\ last_call = [op |-> "new", branch |-> NoBranch, sha |-> None,
                    message |-> << >>,
                    lib |-> NoLib, from |-> "Clean"]
    /\ ncalls = 0
    /\ apply_base = None
    /\ state = Idle /\ should_quit = FALSE /\ pc = "git" /\ job = Idle
    /\ calls = << >> /\ github = Idle
    /\ match_in = Idle /\ match_out = FALSE /\ scan = Idle /\ applied = {}

\* One call of a GitOperations method: ret is what the method computes.
\* apply_base remembers the branch tip a conflicting apply started from
\* until the next GitOperations call other than abort.
CalledOn(op, branch, sha, message, lib, ret) ==
    /\ ncalls < MaxCalls
    /\ repo' = ret.repo
    /\ result' = ret.result
    /\ last_call' = [op |-> op, branch |-> branch, sha |-> sha,
                     message |-> message, lib |-> lib, from |-> repo.state]
    /\ ncalls' = ncalls + 1
    /\ apply_base' = IF op = "cherry_pick" /\ ret.result.ok /\ ~ret.result.success
                     THEN Tip(repo)
                     ELSE IF op = "abort_cherry_pick" THEN apply_base
                     ELSE None
    /\ UNCHANGED <<AppVars, MatchVars, ListVars, HistVars>>

\* A call of a method that takes no branch name.
Called(op, sha, message, lib, ret) ==
    CalledOn(op, NoBranch, sha, message, lib, ret)

GitCheckout ==
    \E b \in BranchNames, blocked \in BOOLEAN :
        CalledOn("checkout_branch", b, None, << >>, NoLib,
                 checkout_branch(repo, b, blocked))

GitCherryPick ==
    \E sha \in Shas :
      \E lib \in IF IsOid(sha) THEN LibOutcomes ELSE {NoLib} :
        Called("cherry_pick", sha, << >>, lib, cherry_pick(repo, sha, lib))

GitContinue ==
    \E m \in Messages :
        Called("continue_cherry_pick", None, m, NoLib,
               continue_cherry_pick(repo, m))

GitAbort ==
    Called("abort_cherry_pick", None, << >>, NoLib, abort_cherry_pick(repo))

\* The operator resolves one conflicting path by hand and stages it.
Resolve(r, p) ==
    [r EXCEPT !.index.conflicts = [q \in DOMAIN @ \ {p} |-> @[q]],
              !.workdir.marks = @ \ {p}]

OperatorResolves ==
    /\ \E p \in DOMAIN repo.index.conflicts : repo' = Resolve(repo, p)
    /\ last_call' = [last_call EXCEPT !.op = "operator"]
    /\ UNCHANGED <<result, ncalls, apply_base, AppVars, MatchVars, ListVars, HistVars>>

NextGit ==
    \/ GitCheckout
    \/ GitCherryPick
    \/ GitContinue
    \/ GitAbort
    \/ OperatorResolves

SpecGit == InitGit /\ [][NextGit]_vars

\* ======================================================================
\* SpecStatus: is_clean while the operator changes the working directory
\* ======================================================================

\* Repository::init: no commit, HEAD on a branch that does not exist yet.
FreshRepo ==
    [head |-> "master",
     branches |-> [b \in {} |-> 0],
     remotes |-> [b \in {} |-> 0],
     tracking |-> {},
     odb |-> << >>,
     index |-> [tree |-> {}, conflicts |-> NoConflicts],
     workdir |-> [tree |-> {}, marks |-> {}],
     state |-> "Clean",
     identity |-> FALSE]

\* Ok(bool)
OkBool(b) == OkResult(b, << >>, None)

InitStatus ==
    /\ repo \in {FreshRepo, InitRepo(TRUE, TRUE, TRUE)}
    /\ result = OkUnit
    /\ last_call = [op |-> "new", path |-> None]
    /\ ncalls = 0
    /\ apply_base = None
    /\ state = Idle /\ should_quit = FALSE /\ pc = "status" /\ job = Idle
    /\ calls = << >> /\ github = Idle
    /\ match_in = Idle /\ match_out = FALSE /\ scan = Idle /\ applied = {}

\* The operator, outside the program, turns the repository into r.
Operator(op, path, r) ==
    /\ pc = "status"
    /\ repo' = r
    /\ last_call' = [op |-> op, path |-> path]
    /\ UNCHANGED <<result, ncalls, apply_base, AppVars, MatchVars, ListVars, HistVars>>

\* A file is created in the working directory.
WriteFile ==
    \E p \in Paths \ repo.workdir.tree :
        Operator("write", p, [repo EXCEPT !.workdir.tree = @ \cup {p}])

\* A file is removed from the working directory.
RemoveFile ==
    \E p \in repo.workdir.tree \cap Paths :
        Operator("remove", p, [repo EXCEPT !.workdir.tree = @ \ {p}])

\* git add <path>: the index takes the file as the working directory has it.
StageFile ==
    \E p \in Paths :
        /\ (p \in repo.index.tree) # (p \in repo.workdir.tree)
        /\ Operator("stage", p,
                    [repo EXCEPT !.index.tree =
                        (@ \ {p}) \cup (repo.workdir.tree \cap {p})])

\* GitOperations::is_clean
IsClean ==
    /\ pc = "status"
    /\ result' = OkBool(is_clean(repo))
    /\ last_call' = [op |-> "is_clean", path |-> None]
    /\ UNCHANGED <<repo, ncalls, apply_base, AppVars, MatchVars, ListVars, HistVars>>

NextStatus ==
    \/ WriteFile
    \/ RemoveFile
    \/ StageFile
    \/ IsClean

SpecStatus == InitStatus /\ [][NextStatus]_vars

\* ======================================================================
\* GitHubClient (src/github/mod.rs): what cherry_pick_pr uses of it
\* ======================================================================

\* Config::default().tags
PendingTag == "pending cherrypick"
CompletedTag == "cherry picked"
EnvironmentTag == "DEV"

\* The pull requests the remote side knows.
PrNumbers == {1, 2}

\* The commits a PrInfo carries. cherry_pick_pr iterates whatever list the
\* PrInfo holds: pull request 1 has MaxCommitsPerPr commits, the others one.
CommitsOf(n) ==
    [k \in 1..(IF n = 1 THEN MaxCommitsPerPr ELSE 1) |-> ShaOf(n, k)]

\* PrInfo (title and author as character strings)
Pr(n) ==
    [number |-> n,
     title |-> IF n = 1 THEN <<"a">> ELSE <<"b">>,
     author |-> IF n = 1 THEN <<"a">> ELSE <<"b">>,
     commits |-> CommitsOf(n)]

\* What list_matching_prs can return: Ok(list) or Err.
ListResults ==
    {[ok |-> TRUE, prs |-> l] : l \in {<< >>, <<Pr(1), Pr(2)>>}}
    \cup {[ok |-> FALSE, prs |-> << >>]}

InitGithub ==
    [labels |-> [n \in PrNumbers |-> <<"S12", EnvironmentTag, PendingTag>>],
     comments |-> [n \in PrNumbers |-> << >>]]

\* Mutant of Retain: the kept labels come out in reverse order.
RECURSIVE Retain_reversed(_, _)
Retain_reversed(labels, drop) ==
    IF labels = << >> THEN << >>
    ELSE IF Head(labels) = drop THEN Retain_reversed(Tail(labels), drop)
    ELSE Retain_reversed(Tail(labels), drop) \o <<Head(labels)>>

\* labels.retain(|label| label != pending_tag)
RECURSIVE Retain(_, _)
Retain(labels, drop) ==
    IF labels = << >> THEN << >>
    ELSE IF Head(labels) = drop THEN Retain(Tail(labels), drop)
    ELSE <<Head(labels)>> \o Retain(Tail(labels), drop)

Contains(seq, x) == \E k \in 1..Len(seq) : seq[k] = x

\* Mutant of UpdatedLabels: the completed tag is pushed without looking.
UpdatedLabels_push(labels) ==
    Append(Retain(labels, PendingTag), CompletedTag)

\* The label list update_pr_labels sends.
UpdatedLabels(labels) ==
    LET kept == Retain(labels, PendingTag)
    IN IF Contains(kept, CompletedTag) THEN kept ELSE Append(kept, CompletedTag)

\* GitHubClient::update_pr_labels; net says which request fails, if any.
update_pr_labels(gh, pr_number, net) ==
    IF net = "get_fails" \/ net = "send_fails"
    THEN [github |-> gh, ok |-> FALSE]
    ELSE [github |-> [gh EXCEPT !.labels[pr_number] = UpdatedLabels(@)],
          ok |-> TRUE]

\* The hexadecimal text of an id: MaxShaLen digits, the id in the first.
ShortLen == 8
MaxShaLen == 9
ShaText(id) == [k \in 1..MaxShaLen |-> IF k = 1 THEN id ELSE 0]

\* Mutant of short_sha: the last ShortLen characters.
short_sha_tail(sha) ==
    IF Len(sha) >= ShortLen
    THEN SubSeq(sha, Len(sha) - ShortLen + 1, Len(sha))
    ELSE sha

\* util::short_sha
short_sha(sha) == IF Len(sha) >= ShortLen THEN SubSeq(sha, 1, ShortLen) ELSE sha

\* The comment_body of add_cherry_pick_comment: the header with the target
\* branch, then one "- <short sha>" line for each of commit_shas, in order.
comment_body(target_branch, commit_shas) ==
    [target |-> target_branch,
     lines |-> [k \in 1..Len(commit_shas) |-> short_sha(commit_shas[k])]]

\* issues(owner, repo).create_comment(pr_number, comment_body)
create_comment(gh, pr_number, body, net) ==
    IF net # "ok" THEN [github |-> gh, ok |-> FALSE]
    ELSE [github |-> [gh EXCEPT !.comments[pr_number] = Append(@, body)],
          ok |-> TRUE]

\* GitHubClient::add_cherry_pick_comment with the texts of the commit ids.
add_comment_of(gh, pr_number, target_branch, texts, net) ==
    create_comment(gh, pr_number, comment_body(target_branch, texts), net)

\* GitHubClient::add_cherry_pick_comment: the body names the target branch
\* and lists the shortened ids, one line each.
add_cherry_pick_comment(gh, pr_number, target_branch, commit_shas, net) ==
    add_comment_of(gh, pr_number, target_branch,
                   [k \in 1..Len(commit_shas) |-> ShaText(commit_shas[k])], net)

\* ----------------------------------------------------------------------
\* pr_matches_criteria and SpecMatch
\* ----------------------------------------------------------------------

\* Labels as character strings.
SprintLabel == <<"S", "1", "2">>
EnvLabel == <<"D", "E", "V">>
PendingLabel == <<"p">>
LabelValues ==
    {SprintLabel, EnvLabel, PendingLabel, <<"S">>, <<"x", "S", "1">>, <<"Q", "A">>}

Digits == {"1", "2"}

\* The sprint patterns a configuration can hold: S\d+ as in
\* Config::default, and the anchored ^S\d+$.
SprintPatterns == [anchored : BOOLEAN]

\* Regex::is_match for S\d+: the pattern is searched for anywhere in the
\* text; anchored, the whole text must be S followed by digits only.
is_match(re, text) ==
    IF re.anchored
    THEN /\ Len(text) >= 2
         /\ text[1] = "S"
         /\ \A k \in 2..Len(text) : text[k] \in Digits
    ELSE \E k \in 1..(Len(text) - 1) : text[k] = "S" /\ text[k + 1] \in Digits

\* labels.iter().any(|label| sprint_regex.is_match(label))
RECURSIVE AnyMatch(_, _)
AnyMatch(labels, re) ==
    IF labels = << >> THEN FALSE
    ELSE is_match(re, Head(labels)) \/ AnyMatch(Tail(labels), re)

\* labels.iter().any(|label| label == tag)
RECURSIVE AnyEqual(_, _)
AnyEqual(labels, tag) ==
    IF labels = << >> THEN FALSE
    ELSE Head(labels) = tag \/ AnyEqual(Tail(labels), tag)

\* Mutant of pr_matches_criteria: the pending tag is not looked for.
matches_without_pending(config, labels, sprint_regex) ==
    AnyMatch(labels, sprint_regex) /\ AnyEqual(labels, config.environment)

\* github::pr_matches_criteria
pr_matches_criteria(config, labels, sprint_regex) ==
    LET has_sprint_tag == AnyMatch(labels, sprint_regex)
        has_env_tag == AnyEqual(labels, config.environment)
        has_pending_tag == AnyEqual(labels, config.pending_tag)
    IN has_sprint_tag /\ has_env_tag /\ has_pending_tag

\* Label lists of up to MaxLabels labels.
LabelLists == UNION {[1..n -> LabelValues] : n \in 0..MaxLabels}

\* config.tags as far as pr_matches_criteria reads it; the environment and
\* the pending tag may be the same label.
TagConfigs ==
    [sprint_pattern : SprintPatterns,
     environment : {EnvLabel, <<"Q", "A">>},
     pending_tag : {PendingLabel, EnvLabel}]

InitMatch ==
    /\ match_in \in [on : {TRUE}, config : TagConfigs, labels : LabelLists]
    /\ match_out = FALSE
    /\ pc = "match"
    /\ repo = Idle /\ result = OkUnit /\ last_call = Idle /\ ncalls = 0
    /\ apply_base = None
    /\ state = Idle /\ should_quit = FALSE /\ job = Idle
    /\ calls = << >> /\ github = Idle /\ scan = Idle /\ applied = {}

\* One call of pr_matches_criteria, the regex compiled from the
\* configuration's sprint pattern.
Match ==
    /\ pc = "match"
    /\ match_out' = pr_matches_criteria(match_in.config, match_in.labels,
                                        match_in.config.sprint_pattern)
    /\ pc' = "matched"
    /\ UNCHANGED <<GitVars, state, should_quit, job, calls, github, match_in,
                   ListVars, HistVars>>

NextMatch == Match

SpecMatch == InitMatch /\ [][NextMatch]_vars

\* ----------------------------------------------------------------------
\* list_matching_prs and SpecList
\* ----------------------------------------------------------------------

MaxItems == 4          \* pull requests the API holds for the base branch
PerPage == 2           \* items of one page (per_page(100), scaled down)

\* Utc::now() and ui.days_back, in days.
Clock == [now |-> 3, days_back |-> 1]

\* let since = Utc::now() - Duration::days(days_back)
since == Clock.now - Clock.days_back

\* config.tags of Config::default.
DefaultTags ==
    [sprint_pattern |-> [anchored |-> FALSE],
     environment |-> EnvLabel,
     pending_tag |-> PendingLabel]

QualifyingLabels == <<SprintLabel, EnvLabel, PendingLabel>>
OtherLabels == <<SprintLabel, <<"Q", "A">>, PendingLabel>>

\* The pull requests the API can deliver: updated_at and created_at are
\* Option<DateTime> (None or a day), labels is what the issues API holds.
ItemKinds ==
    {[updated_at |-> 3, created_at |-> 1, labels |-> QualifyingLabels],
     [updated_at |-> 3, created_at |-> 1, labels |-> OtherLabels],
     [updated_at |-> None, created_at |-> 1, labels |-> QualifyingLabels],
     [updated_at |-> None, created_at |-> None, labels |-> QualifyingLabels]}

\* What the API holds: the items in the order it delivers them, PerPage to
\* a page; the item at position k is pull request number k.
ItemLists == UNION {[1..n -> ItemKinds] : n \in 0..MaxItems}

\* pr.updated_at.unwrap_or(pr.created_at.unwrap_or(Utc::now()))
effective_update_time(item, now) ==
    IF item.updated_at # None THEN item.updated_at
    ELSE IF item.created_at # None THEN item.created_at
    ELSE now

\* One remote request of list_matching_prs and whether it succeeded.
Request(kind, arg, ok) == [kind |-> kind, arg |-> arg, ok |-> ok]

\* Result<Vec<PrInfo>>
ListOk(prs) == [ok |-> TRUE, prs |-> prs, error |-> ""]
ListErr(e) == [ok |-> FALSE, prs |-> << >>, error |-> e]

\* Mutant of get_pr_commits: every commit of the pull request is listed.
get_pr_commits_all(pr_number) ==
    [k \in 1..MaxCommitsPerPr |-> ShaOf(pr_number, k)]

\* get_pr_commits: the head commit of the pull request, and only it.
get_pr_commits(pr_number) == <<ShaOf(pr_number, 1)>>

\* The PrInfo pushed for item k.
ScannedPr(k, labels, commits) ==
    [number |-> k, labels |-> labels, commits |-> commits]

\* Mutant of Collect: the new PrInfo goes to the front.
Collect_front(prs, pr_info) == <<pr_info>> \o prs

\* matching_prs.push(pr_info)
Collect(prs, pr_info) == Append(prs, pr_info)

\* Mutant of ReturnErr: what was collected so far is returned.
ReturnPartial(sc, e) ==
    [sc EXCEPT !.at = "returned", !.result = ListOk(sc.matching_prs)]

\* `?` on a failed call: list_matching_prs returns the error.
ReturnErr(sc, e) ==
    [sc EXCEPT !.at = "returned", !.result = ListErr(e)]

\* Ok(matching_prs)
ReturnOk(sc) ==
    [sc EXCEPT !.at = "returned", !.result = ListOk(sc.matching_prs)]

Min(a, b) == IF a < b THEN a ELSE b

\* Mutant of Proceed: an item older than the cutoff does not end the scan
\* of its page; its labels are fetched like those of any item.
Proceed_no_cutoff(sc) ==
    IF sc.pos > sc.page_end
    THEN IF sc.page_end < Len(sc.items)
         THEN [sc EXCEPT !.at = "next_page"]
         ELSE ReturnOk(sc)
    ELSE [sc EXCEPT !.at = "labels"]

\* The loop of list_matching_prs from item sc.pos up to its next remote
\* request or its return: past the end of the page the next page is asked
\* for if page.next is Some; an item older than the cutoff ends the scan.
Proceed(sc) ==
    IF sc.pos > sc.page_end
    THEN IF sc.page_end < Len(sc.items)
         THEN [sc EXCEPT !.at = "next_page"]
         ELSE ReturnOk(sc)
    ELSE IF effective_update_time(sc.items[sc.pos], Clock.now) < since
    THEN ReturnOk(sc)
    ELSE [sc EXCEPT !.at = "labels"]

\* Mutant of TurnPage: the page at hand stays the page at hand.
TurnPage_stay(sc) == sc

\* page = next_page
TurnPage(sc) ==
    [sc EXCEPT !.page_end = Min(@ + PerPage, Len(sc.items))]

\* list_matching_prs as it is entered.
NewScan(items, pattern_ok) ==
    [on |-> TRUE, items |-> items, pattern_ok |-> pattern_ok,
     at |-> "first_page", pos |-> 1, page_end |-> 0,
     matching_prs |-> << >>, requests |-> << >>, result |-> ListErr("")]

InitList ==
    /\ scan \in {NewScan(items, p) : items \in ItemLists, p \in BOOLEAN}
    /\ pc = "scan"
    /\ repo = Idle /\ result = OkUnit /\ last_call = Idle /\ ncalls = 0
    /\ apply_base = None
    /\ state = Idle /\ should_quit = FALSE /\ job = Idle
    /\ calls = << >> /\ github = Idle
    /\ match_in = Idle /\ match_out = FALSE /\ applied = {}

\* A step of list_matching_prs changes its locals only.
ScanTo(sc) ==
    /\ scan' = sc
    /\ UNCHANGED <<GitVars, AppVars, MatchVars, HistVars>>

\* The first page is requested, then the sprint pattern is compiled.
ScanFirstPage ==
    /\ pc = "scan" /\ scan.at = "first_page"
    /\ \E ok \in BOOLEAN :
         LET sent == [scan EXCEPT !.requests = Append(@, Request("page", 1, ok))]
         IN ScanTo(IF ~ok THEN ReturnErr(sent, "Failed to fetch pull requests")
                   ELSE IF ~sent.pattern_ok
                   THEN ReturnErr(sent, "Invalid sprint pattern regex")
                   ELSE Proceed([sent EXCEPT
                                   !.page_end = Min(PerPage, Len(sent.items))]))

\* get_pr_labels of the item at hand, then pr_matches_criteria.
ScanLabels ==
    /\ pc = "scan" /\ scan.at = "labels"
    /\ \E ok \in BOOLEAN :
         LET sent == [scan EXCEPT
                        !.requests = Append(@, Request("labels", scan.pos, ok))]
             labels == scan.items[scan.pos].labels
         IN ScanTo(IF ~ok THEN ReturnErr(sent, "Failed to fetch PR labels")
                   ELSE IF pr_matches_criteria(DefaultTags, labels,
                                               DefaultTags.sprint_pattern)
                   THEN [sent EXCEPT !.at = "commits"]
                   ELSE Proceed([sent EXCEPT !.pos = @ + 1]))

\* get_pr_commits of a qualifying item, then the push.
ScanCommits ==
    /\ pc = "scan" /\ scan.at = "commits"
    /\ \E ok \in BOOLEAN :
         LET sent == [scan EXCEPT
                        !.requests = Append(@, Request("commits", scan.pos, ok))]
             pr_info == ScannedPr(scan.pos, scan.items[scan.pos].labels,
                                  get_pr_commits(scan.pos))
         IN ScanTo(IF ~ok THEN ReturnErr(sent, "Failed to fetch PR details")
                   ELSE Proceed([sent EXCEPT
                                   !.matching_prs = Collect(@, pr_info),
                                   !.pos = @ + 1]))

\* get_page(&page.next) with page.next Some.
ScanNextPage ==
    /\ pc = "scan" /\ scan.at = "next_page"
    /\ \E ok \in BOOLEAN :
         LET page == (scan.page_end \div PerPage) + 1
             sent == [scan EXCEPT
                        !.requests = Append(@, Request("page", page, ok))]
         IN ScanTo(IF ~ok THEN ReturnErr(sent, "get_page")
                   ELSE Proceed(TurnPage(sent)))

NextList ==
    \/ ScanFirstPage
    \/ ScanLabels
    \/ ScanCommits
    \/ ScanNextPage

SpecList == InitList /\ [][NextList]_vars

\* list_matching_prs is awaited to its end: every request it issues comes
\* back, with a response or with an error, and the function goes on.
SpecListFair == SpecList /\ WF_vars(NextList)

\* ======================================================================
\* AppState (src/ui/state.rs)
\* ======================================================================

\* Option<String> messages: what the text is built from.
NoMessage == [kind |-> "None", pr |-> 0, sha |-> << >>, conflicts |-> << >>,
              error |-> ""]

Message(kind, pr, sha, conflicts, error) ==
    [kind |-> kind, pr |-> pr, sha |-> sha, conflicts |-> conflicts,
     error |-> error]

\* Option<usize>::None of the list selection
NoSelection == -1

\* ListState::new
NewListState == [selected |-> NoSelection, items_count |-> 0]

\* Mutant of set_items_count: a selection past the end is kept.
set_items_count_keep(ls, count) ==
    [selected |-> IF count = 0 THEN NoSelection
                  ELSE IF ls.selected = NoSelection THEN 0
                  ELSE ls.selected,
     items_count |-> count]

\* ListState::set_items_count
set_items_count(ls, count) ==
    [selected |-> IF count = 0 THEN NoSelection
                  ELSE IF ls.selected = NoSelection THEN 0
                  ELSE IF ls.selected >= count THEN count - 1
                  ELSE ls.selected,
     items_count |-> count]

\* Mutant of select_next: the selection stops at the last item.
select_next_clamped(ls) ==
    IF ls.items_count = 0 THEN ls
    ELSE [ls EXCEPT !.selected =
            IF @ = NoSelection THEN 0
            ELSE IF @ >= ls.items_count - 1 THEN ls.items_count - 1 ELSE @ + 1]

\* ListState::select_next
select_next(ls) ==
    IF ls.items_count = 0 THEN ls
    ELSE [ls EXCEPT !.selected =
            IF @ = NoSelection THEN 0
            ELSE IF @ >= ls.items_count - 1 THEN 0 ELSE @ + 1]

\* ListState::select_previous
select_previous(ls) ==
    IF ls.items_count = 0 THEN ls
    ELSE [ls EXCEPT !.selected =
            IF @ = NoSelection THEN 0
            ELSE IF @ = 0 THEN ls.items_count - 1 ELSE @ - 1]

\* The characters typed into the prompt, and char::to_lowercase on them.
Chars == {"B", " "}
Lower(c) == IF c = "B" THEN "b" ELSE c
to_lowercase(str) == [k \in 1..Len(str) |-> Lower(str[k])]

\* str::trim
RECURSIVE TrimStart(_)
TrimStart(str) ==
    IF str # << >> /\ Head(str) = " " THEN TrimStart(Tail(str)) ELSE str

RECURSIVE TrimEnd(_)
TrimEnd(str) ==
    IF str # << >> /\ str[Len(str)] = " "
    THEN TrimEnd(SubSeq(str, 1, Len(str) - 1)) ELSE str

trim(str) == TrimEnd(TrimStart(str))

\* str::contains
contains(str, pat) ==
    \E k \in 0..(Len(str) - Len(pat)) : SubSeq(str, k + 1, k + Len(pat)) = pat

\* u64::to_string of a pull-request number (one digit here)
NumberText(n) == <<IF n = 1 THEN "1" ELSE "2">>

\* Mutant of Shown: the filter text is compared as typed.
Shown_as_typed(pr, q) ==
    \/ contains(to_lowercase(pr.title), q)
    \/ contains(to_lowercase(pr.author), q)
    \/ contains(NumberText(pr.number), q)

\* Whether recompute_display_indices keeps a pull request under filter q.
Shown(pr, q) ==
    LET ql == to_lowercase(q)
    IN \/ contains(to_lowercase(pr.title), ql)
       \/ contains(to_lowercase(pr.author), ql)
       \/ contains(NumberText(pr.number), ql)

\* The indices (from 0) of the shown pull requests, ascending.
RECURSIVE Indices(_, _, _)
Indices(prs, q, k) ==
    IF k > Len(prs) THEN << >>
    ELSE (IF q = << >> \/ Shown(prs[k], q) THEN <<k - 1>> ELSE << >>)
         \o Indices(prs, q, k + 1)

\* AppState::recompute_display_indices; filter_query << >> is None.
recompute_display_indices(st) ==
    LET idx == Indices(st.prs, st.filter_query, 1)
    IN [st EXCEPT !.display_indices = idx,
                  !.pr_list_state = set_items_count(@, Len(idx))]

\* AppState::set_prs
set_prs(st, prs) ==
    [recompute_display_indices([st EXCEPT !.prs = prs])
        EXCEPT !.loading_message = NoMessage, !.error_message = NoMessage]

\* Mutant of set_error: the other two messages stay.
set_error_only(st, m) == [st EXCEPT !.error_message = m]

\* AppState::set_error
set_error(st, m) ==
    [st EXCEPT !.error_message = m, !.loading_message = NoMessage,
               !.success_message = NoMessage]

\* AppState::set_loading
set_loading(st, m) ==
    [st EXCEPT !.loading_message = m, !.error_message = NoMessage,
               !.success_message = NoMessage]

\* AppState::set_success
set_success(st, m) ==
    [st EXCEPT !.success_message = m, !.loading_message = NoMessage,
               !.error_message = NoMessage]

\* AppState::clear_messages
clear_messages(st) ==
    [st EXCEPT !.error_message = NoMessage, !.loading_message = NoMessage,
               !.success_message = NoMessage]

\* AppState::set_filter_query
set_filter_query(st, q) ==
    recompute_display_indices(
        [st EXCEPT !.filter_query = IF trim(q) = << >> THEN << >> ELSE q])

\* AppState::start_prompt
start_prompt(st, initial) ==
    [st EXCEPT !.input_active = TRUE, !.input_buffer = initial]

\* AppState::cancel_prompt
cancel_prompt(st) ==
    [st EXCEPT !.input_active = FALSE, !.input_buffer = << >>]

\* AppState::new
NewAppState ==
    [current_screen |-> "MainMenu",
     prs |-> << >>,
     pr_list_state |-> NewListState,
     input_active |-> FALSE,
     input_buffer |-> << >>,
     filter_query |-> << >>,
     display_indices |-> << >>,
     error_message |-> NoMessage,
     loading_message |-> NoMessage,
     success_message |-> NoMessage]

\* ======================================================================
\* App (src/ui/app.rs)
\* ======================================================================

MaxInput == 1          \* characters the prompt buffer takes

\* The key codes handle_key_event tells apart; CharKeys are the
\* KeyCode::Char(c) among them.
CharKeys == {"q", "1", "r", "k", "j", "f"} \cup Chars

Keys == {"Esc", "Enter", "Tab", "Backspace", "Up", "Down"} \cup CharKeys

\* What a handler hands back: the new AppState, whether the loop goes on,
\* and the index of the pull request cherry_pick_pr is entered with (or
\* NoSelection).
Handled(st, go_on, pick) == [state |-> st, go_on |-> go_on, pick |-> pick]

\* App::load_prs, res being what list_matching_prs returns
load_prs(st, res) ==
    LET loading == [set_loading(st, Message("Loading PRs", 0, << >>, << >>, ""))
                       EXCEPT !.current_screen = "Progress"]
    IN IF res.ok
       THEN [set_prs(loading, res.prs) EXCEPT !.current_screen = "PrList"]
       ELSE [set_error(loading, Message("Failed to load PRs", 0, << >>, << >>,
                                        "list_matching_prs"))
                EXCEPT !.current_screen = "Error"]

\* handle_key_event while input_active: inline prompt editing
handle_prompt_key(st, code) ==
    CASE code = "Enter" ->
           LET value == trim(st.input_buffer)
               closed == cancel_prompt(st)
           IN IF st.current_screen = "PrList"
              THEN set_filter_query(closed, value)
              ELSE closed
      [] code = "Esc" -> cancel_prompt(st)
      [] code = "Backspace" ->
           [st EXCEPT !.input_buffer =
               IF @ = << >> THEN @ ELSE SubSeq(@, 1, Len(@) - 1)]
      [] code \in CharKeys -> [st EXCEPT !.input_buffer = Append(@, code)]
      [] OTHER -> st

\* App::handle_main_menu_input
handle_main_menu_input(st, code, res) ==
    CASE code \in {"1", "Enter"} -> [st EXCEPT !.current_screen = "PrList"]
      [] code = "r" -> load_prs(st, res)
      [] OTHER -> st

\* App::handle_pr_list_input: Enter maps the selected row through
\* display_indices to the index cherry_pick_pr is called with.
handle_pr_list_input(st, code, res) ==
    CASE code \in {"Up", "k"} ->
           Handled([st EXCEPT !.pr_list_state = select_previous(@)], TRUE, NoSelection)
      [] code \in {"Down", "j"} ->
           Handled([st EXCEPT !.pr_list_state = select_next(@)], TRUE, NoSelection)
      [] code = "Enter" ->
           LET selected == st.pr_list_state.selected
           IN IF selected # NoSelection /\ selected < Len(st.display_indices)
              THEN Handled(st, TRUE, st.display_indices[selected + 1])
              ELSE Handled(st, TRUE, NoSelection)
      [] code = "r" -> Handled(load_prs(st, res), TRUE, NoSelection)
      [] code = "f" -> Handled(start_prompt(st, st.filter_query), TRUE, NoSelection)
      [] OTHER -> Handled(st, TRUE, NoSelection)

\* App::handle_key_event
handle_key_event(st, code, res) ==
    IF st.input_active THEN Handled(handle_prompt_key(st, code), TRUE, NoSelection)
    ELSE CASE code = "q" -> Handled(st, FALSE, NoSelection)
           [] code = "Esc" ->
                IF st.current_screen = "MainMenu"
                THEN Handled(st, FALSE, NoSelection)
                ELSE Handled([st EXCEPT !.current_screen = "MainMenu"], TRUE,
                             NoSelection)
           [] OTHER ->
                CASE st.current_screen = "MainMenu" ->
                       Handled(handle_main_menu_input(st, code, res), TRUE,
                               NoSelection)
                  [] st.current_screen = "PrList" ->
                       handle_pr_list_input(st, code, res)
                  [] st.current_screen = "Progress" ->
                       Handled(st, TRUE, NoSelection)
                  [] OTHER ->
                       Handled([st EXCEPT !.current_screen = "MainMenu"], TRUE,
                               NoSelection)

\* The key makes load_prs replace the list of pull requests (set_prs).
Reloads(st, code, res) ==
    /\ ~st.input_active
    /\ code = "r"
    /\ st.current_screen \in {"MainMenu", "PrList"}
    /\ res.ok

\* The locals of cherry_pick_pr as it starts on pull request pr; github0
\* is what the remote side held at that moment.
NewJob(pr, gh) ==
    [on |-> TRUE, pr |-> pr, i |-> 1, success |-> TRUE,
     cherry_picked_commits |-> << >>, github0 |-> gh]

\* One entry of the record of calls cherry_pick_pr has made.
Call(op, arg, ok, success) == [op |-> op, arg |-> arg, ok |-> ok, success |-> success]

\* Mutant of AfterCheckout: a failed checkout is tried again.
AfterCheckout_retry(ok, n) ==
    IF ~ok THEN "checkout" ELSE IF n = 0 THEN "labels" ELSE "pick"

\* Mutant of AfterCheckout: a failed checkout does not end cherry_pick_pr.
AfterCheckout_go_on(ok, n) == IF n = 0 THEN "labels" ELSE "pick"

\* Where cherry_pick_pr goes after checkout_branch returned: out when it
\* failed, else into the loop over the n commits of the pull request.
AfterCheckout(ok, n) ==
    IF ~ok THEN "keys" ELSE IF n = 0 THEN "labels" ELSE "pick"

\* Mutant of AfterPick: the loop does not break on a failed apply.
AfterPick_no_break(res, i, n) ==
    IF i < n THEN "pick" ELSE "labels"

\* Where cherry_pick_pr goes after the apply of commit i of n returned res:
\* on to the next commit, past the loop, or out (break with success = false).
AfterPick(res, i, n) ==
    IF res.ok /\ res.success
    THEN IF i < n THEN "pick" ELSE "labels"
    ELSE "keys"

\* Mutant of AfterLabels: the key loop resumes before the comment is posted.
AfterLabels_yield(ok) == "keys"

\* Mutant of AfterLabels: a failed label update ends cherry_pick_pr.
AfterLabels_propagate(ok) == IF ok THEN "comment" ELSE "keys"

\* Where cherry_pick_pr goes after update_pr_labels returned: the comment
\* follows whether or not the update failed.
AfterLabels(ok) == "comment"

\* What the cherry_pick calls of cherry_pick_pr meet inside libgit2: every
\* kind and every RepositoryState of LibOutcomes; one conflict set (path 1
\* with an "our" entry, path 2 without) stands for every conflicting replay.
AppConflicts == (1 :> TRUE) @@ (2 :> FALSE)

AppLibOutcomes ==
    {l \in LibOutcomes : l.conflicts \in {NoConflicts, AppConflicts}}

\* The repositories the application starts on: the target branch at origin
\* only, local only (no committer identity), or nowhere.
InitApp ==
    /\ repo \in {InitRepo(FALSE, TRUE, TRUE), InitRepo(TRUE, FALSE, FALSE),
                 InitRepo(FALSE, FALSE, TRUE)}
    /\ result = OkUnit
    /\ last_call = [op |-> "new", branch |-> NoBranch, sha |-> None,
                    message |-> << >>,
                    lib |-> NoLib, from |-> "Clean"]
    /\ ncalls = 0
    /\ apply_base = None
    /\ state = NewAppState
    /\ should_quit = FALSE
    /\ pc = "run"
    /\ job = Idle
    /\ calls = << >>
    /\ github = InitGithub
    /\ match_in = Idle /\ match_out = FALSE /\ scan = Idle /\ applied = {}

\* App::run: the initial load_prs, then the loop of run_app.
Run ==
    /\ pc = "run"
    /\ \E res \in ListResults :
         /\ state' = load_prs(state, res)
         /\ applied' = IF res.ok THEN {} ELSE applied
    /\ pc' = "keys"
    /\ UNCHANGED <<GitVars, should_quit, job, calls, github, MatchVars,
                   ListVars>>

\* run_app: one key press handled. A key that enters cherry_pick_pr runs
\* it up to the checkout; the steps below run the rest before the next
\* key is read. The locals of the previous cherry_pick_pr are gone. Into
\* the open prompt the operator types characters of Chars, MaxInput at most.
KeyEvent ==
    /\ pc = "keys"
    /\ \E code \in Keys :
       \E res \in IF code = "r" THEN ListResults ELSE {[ok |-> FALSE, prs |-> << >>]} :
         LET h == handle_key_event(state, code, res)
             starts == h.pick # NoSelection /\ h.pick < Len(h.state.prs)
             pr == h.state.prs[h.pick + 1]
         IN /\ (state.input_active /\ code \in CharKeys) =>
                  (code \in Chars /\ Len(state.input_buffer) < MaxInput)
            /\ starts => /\ Len(repo.odb) + Len(pr.commits) <= MaxOdb
                         /\ ncalls < MaxRuns
            /\ ncalls' = IF starts THEN ncalls + 1 ELSE ncalls
            /\ state' = IF starts
                        THEN [set_loading(h.state,
                                 Message("Cherry-picking PR", pr.number, << >>,
                                         << >>, ""))
                                 EXCEPT !.current_screen = "Progress"]
                        ELSE h.state
            /\ should_quit' = (should_quit \/ ~h.go_on)
            /\ pc' = IF ~h.go_on THEN "quit"
                     ELSE IF starts THEN "checkout" ELSE "keys"
            /\ job' = IF starts THEN NewJob(pr, github) ELSE Idle
            /\ calls' = << >>
            /\ applied' = IF Reloads(state, code, res) THEN {} ELSE applied
    /\ UNCHANGED <<repo, result, last_call, apply_base, github, MatchVars,
                   ListVars>>

\* cherry_pick_pr: switch to the target branch.
CheckoutStep ==
    /\ pc = "checkout"
    /\ \E blocked \in BOOLEAN :
         LET ret == checkout_branch(repo, TargetBranch, blocked)
         IN /\ repo' = ret.repo
            /\ result' = ret.result
            /\ calls' = Append(calls, Call("checkout_branch", 0, ret.result.ok, TRUE))
            /\ pc' = AfterCheckout(ret.result.ok, Len(job.pr.commits))
            /\ IF ret.result.ok
               THEN state' = state
               ELSE state' = [set_error(state,
                                 Message("Failed to checkout target branch",
                                         0, << >>, << >>, ret.result.error))
                                 EXCEPT !.current_screen = "Error"]
    /\ UNCHANGED <<last_call, ncalls, apply_base, should_quit, job, github,
                   MatchVars, ListVars, HistVars>>

\* cherry_pick_pr: one turn of the loop over pr.commits.
PickStep ==
    /\ pc = "pick"
    /\ \E lib \in AppLibOutcomes :
         LET sha == job.pr.commits[job.i]
             ret == cherry_pick(repo, sha, lib)
             res == ret.result
             next == AfterPick(res, job.i, Len(job.pr.commits))
         IN /\ repo' = ret.repo
            /\ result' = res
            /\ calls' = Append(calls, Call("cherry_pick", sha, res.ok, res.success))
            /\ pc' = next
            /\ job' = [job EXCEPT
                         !.i = @ + 1,
                         !.success = (next # "keys"),
                         !.cherry_picked_commits =
                             IF res.ok /\ res.success /\ res.commit_sha # None
                             THEN Append(@, res.commit_sha) ELSE @]
            /\ state' =
                 IF res.ok /\ res.success THEN state
                 ELSE IF res.ok
                 THEN [set_error(state,
                          Message("Conflicts in commit", 0,
                                  short_sha(ShaText(sha)), res.conflicts, ""))
                          EXCEPT !.current_screen = "Error"]
                 ELSE [set_error(state,
                          Message("Failed to cherry-pick commit", 0,
                                  short_sha(ShaText(sha)), << >>, res.error))
                          EXCEPT !.current_screen = "Error"]
    /\ UNCHANGED <<last_call, ncalls, apply_base, should_quit, github, MatchVars, ListVars, HistVars>>

\* cherry_pick_pr, success: update the labels; a failure is only logged.
LabelsStep ==
    /\ pc = "labels"
    /\ \E net \in {"ok", "get_fails", "send_fails"} :
         LET ret == update_pr_labels(github, job.pr.number, net)
         IN /\ github' = ret.github
            /\ calls' = Append(calls, Call("update_pr_labels", job.pr.number,
                                           ret.ok, TRUE))
            /\ pc' = AfterLabels(ret.ok)
    /\ UNCHANGED <<GitVars, state, should_quit, job, MatchVars, ListVars, HistVars>>

\* cherry_pick_pr, success: post the comment (a failure is only logged),
\* set the success message and return to the list.
CommentStep ==
    /\ pc = "comment"
    /\ \E net \in {"ok", "fails"} :
         LET ret == add_cherry_pick_comment(github, job.pr.number, TargetBranch,
                                            job.cherry_picked_commits, net)
         IN /\ github' = ret.github
            /\ calls' = Append(calls, Call("add_cherry_pick_comment",
                                           job.pr.number, ret.ok, TRUE))
    /\ state' = [set_success(state,
                    Message("Successfully cherry-picked PR", job.pr.number,
                            << >>, << >>, ""))
                    EXCEPT !.current_screen = "PrList"]
    /\ pc' = "keys"
    /\ applied' = applied \cup {job.pr.number}
    /\ UNCHANGED <<GitVars, should_quit, job, MatchVars, ListVars>>

Next ==
    \/ Run
    \/ KeyEvent
    \/ CheckoutStep
    \/ PickStep
    \/ LabelsStep
    \/ CommentStep

Spec == InitApp /\ [][Next]_vars

\* ======================================================================
\* SpecCore: a run of the application or a run of list_matching_prs
\* ======================================================================

InitCore == InitApp \/ InitList

NextCore == Next \/ NextList

SpecCore == InitCore /\ [][NextCore]_vars

\* ======================================================================
\* render_branch_name (src/util.rs) and SpecTemplate
\* ======================================================================

MaxSegments == 3       \* pieces a template is put together from

\* "{task_id}", character by character.
Placeholder == <<"{", "t", "a", "s", "k", "_", "i", "d", "}">>

\* Mutant of replace: str::replacen(from, to, 1), the first match only.
RECURSIVE replace_first(_, _, _)
replace_first(str, from, to) ==
    IF Len(str) < Len(from) THEN str
    ELSE IF SubSeq(str, 1, Len(from)) = from
    THEN to \o SubSeq(str, Len(from) + 1, Len(str))
    ELSE <<Head(str)>> \o replace_first(Tail(str), from, to)

\* str::replace(from, to): the matches of from are found from left to
\* right, without overlap, and the text put in is not searched again.
RECURSIVE replace(_, _, _)
replace(str, from, to) ==
    IF Len(str) < Len(from) THEN str
    ELSE IF SubSeq(str, 1, Len(from)) = from
    THEN to \o replace(SubSeq(str, Len(from) + 1, Len(str)), from, to)
    ELSE <<Head(str)>> \o replace(Tail(str), from, to)

\* util::render_branch_name
render_branch_name(template, task_id) == replace(template, Placeholder, task_id)

\* The pieces of a template: the placeholder, plain text, and beginnings
\* and ends of a placeholder that are none.
Segments == {Placeholder, <<"x">>, <<"{">>, <<"{", "t">>, <<"}">>}

SegmentLists == UNION {[1..n -> Segments] : n \in 0..MaxSegments}

\* concat of a list of texts
RECURSIVE Flatten(_)
Flatten(texts) ==
    IF texts = << >> THEN << >> ELSE Head(texts) \o Flatten(Tail(texts))

\* Task ids: empty, a plain one, and one that is itself the placeholder.
TaskIds == {<< >>, <<"A", "-", "1">>, Placeholder}

InitTemplate ==
    /\ match_in \in [on : {TRUE}, segments : SegmentLists, task_id : TaskIds]
    /\ match_out = << >>
    /\ pc = "render"
    /\ repo = Idle /\ result = OkUnit /\ last_call = Idle /\ ncalls = 0
    /\ apply_base = None
    /\ state = Idle /\ should_quit = FALSE /\ job = Idle
    /\ calls = << >> /\ github = Idle /\ scan = Idle /\ applied = {}

RenderBranchName ==
    /\ pc = "render"
    /\ match_out' = render_branch_name(Flatten(match_in.segments),
                                       match_in.task_id)
    /\ pc' = "rendered"
    /\ UNCHANGED <<GitVars, state, should_quit, job, calls, github, match_in,
                   ListVars, HistVars>>

NextTemplate == RenderBranchName

SpecTemplate == InitTemplate /\ [][NextTemplate]_vars

\* ======================================================================
\* Config (src/config/mod.rs) and SpecEnv
\* ======================================================================

MaxEnvLines == 2       \* lines of cherry.env (SpecEnv)

\* Texts are sequences of tokens: a word, or one of the characters the
\* parser looks at.
DQuote == "\""

\* Config::default
DefaultConfig ==
    [github |-> [owner |-> << >>, repo |-> << >>,
                 base_branch |-> <<"master">>,
                 target_branch |-> <<"master">>,
                 cherry_pick_source_branch |-> <<"master">>,
                 branch_name_template |-> <<"cherry-pick/", "{task_id}">>],
     tags |-> [sprint_pattern |-> <<"S\\d+">>, environment |-> <<"DEV">>,
               pending_tag |-> <<"pending cherrypick">>,
               completed_tag |-> <<"cherry picked">>],
     ui |-> [days_back |-> 28, page_size |-> 20, only_forked_repos |-> FALSE]]

\* A config.toml that sets every field to something else.
FileConfig ==
    [github |-> [owner |-> <<"o">>, repo |-> <<"r">>,
                 base_branch |-> <<"b">>,
                 target_branch |-> <<"t">>,
                 cherry_pick_source_branch |-> <<"s">>,
                 branch_name_template |-> <<"n">>],
     tags |-> [sprint_pattern |-> <<"P">>, environment |-> <<"QA">>,
               pending_tag |-> <<"todo">>, completed_tag |-> <<"done">>],
     ui |-> [days_back |-> 7, page_size |-> 50, only_forked_repos |-> TRUE]]

\* Result<Config>
ConfigOk(cfg) == [ok |-> TRUE, config |-> cfg, error |-> ""]
ConfigErr(e) == [ok |-> FALSE, config |-> DefaultConfig, error |-> e]

\* The keys load_env_overrides knows, by the type of their field.
StringKeys == {"GITHUB_OWNER", "GITHUB_REPO", "BASE_BRANCH", "TARGET_BRANCH",
               "CHERRY_PICK_SOURCE_BRANCH", "BRANCH_NAME_TEMPLATE"}
BoolKey == "ONLY_FORKED_REPOS"
NumberKey == "DAYS_BACK"
EnvKeys == StringKeys \cup {BoolKey, NumberKey}
UnknownKey == "GITHUB_TOKEN"

\* The decimal numerals of the model and the u32 they denote.
Numerals == ("7" :> 7) @@ ("14" :> 14) @@ ("28" :> 28)

\* str::parse::<bool>: exactly "true" and "false" parse.
parse_bool(value) ==
    IF value = <<"true">> THEN [ok |-> TRUE, val |-> TRUE]
    ELSE IF value = <<"false">> THEN [ok |-> TRUE, val |-> FALSE]
    ELSE [ok |-> FALSE, val |-> FALSE]

\* str::parse::<u32>
parse_u32(value) ==
    IF Len(value) = 1 /\ value[1] \in DOMAIN Numerals
    THEN [ok |-> TRUE, val |-> Numerals[value[1]]]
    ELSE [ok |-> FALSE, val |-> 0]

\* str::trim_matches(c)
RECURSIVE trim_matches(_, _)
trim_matches(str, c) ==
    IF str # << >> /\ Head(str) = c THEN trim_matches(Tail(str), c)
    ELSE IF str # << >> /\ str[Len(str)] = c
    THEN trim_matches(SubSeq(str, 1, Len(str) - 1), c)
    ELSE str

\* str::split_once('='): where the first '=' stands, 0 when there is none.
FirstEquals(line) ==
    IF \E k \in 1..Len(line) : line[k] = "="
    THEN CHOOSE k \in 1..Len(line) :
             line[k] = "=" /\ \A j \in 1..(k - 1) : line[j] # "="
    ELSE 0

\* The match on the key in load_env_overrides.
Assign(cfg, key, value) ==
    IF key = <<"GITHUB_OWNER">> THEN [cfg EXCEPT !.github.owner = value]
    ELSE IF key = <<"GITHUB_REPO">> THEN [cfg EXCEPT !.github.repo = value]
    ELSE IF key = <<"BASE_BRANCH">>
    THEN [cfg EXCEPT !.github.base_branch = value]
    ELSE IF key = <<"TARGET_BRANCH">>
    THEN [cfg EXCEPT !.github.target_branch = value]
    ELSE IF key = <<"CHERRY_PICK_SOURCE_BRANCH">>
    THEN [cfg EXCEPT !.github.cherry_pick_source_branch = value]
    ELSE IF key = <<"BRANCH_NAME_TEMPLATE">>
    THEN [cfg EXCEPT !.github.branch_name_template = value]
    ELSE IF key = <<"ONLY_FORKED_REPOS">>
    THEN [cfg EXCEPT !.ui.only_forked_repos =
            IF parse_bool(value).ok THEN parse_bool(value).val ELSE FALSE]
    ELSE IF key = <<"DAYS_BACK">>
    THEN [cfg EXCEPT !.ui.days_back =
            IF parse_u32(value).ok THEN parse_u32(value).val ELSE 28]
    ELSE cfg

\* The body of the loop over contents.lines().
EnvLine(cfg, raw) ==
    LET line == trim(raw)
        eq == FirstEquals(line)
    IN IF line = << >> \/ Head(line) = "#" THEN cfg
       ELSE IF eq = 0 THEN cfg
       ELSE Assign(cfg, trim(SubSeq(line, 1, eq - 1)),
                   trim_matches(trim(SubSeq(line, eq + 1, Len(line))), DQuote))

RECURSIVE EnvLines(_, _)
EnvLines(cfg, lines) ==
    IF lines = << >> THEN cfg
    ELSE EnvLines(EnvLine(cfg, Head(lines)), Tail(lines))

\* Config::load_env_overrides; env is cherry.env: absent, unreadable, or
\* present with its lines.
load_env_overrides(cfg, env) ==
    IF env.kind = "absent" THEN ConfigOk(cfg)
    ELSE IF env.kind = "unreadable"
    THEN ConfigErr("Failed to read cherry.env file")
    ELSE ConfigOk(EnvLines(cfg, env.lines))

\* Config::load; file is config.toml: absent, valid, or not parsable.
load(file, env) ==
    IF file = "invalid" THEN ConfigErr("Failed to parse config file")
    ELSE load_env_overrides(IF file = "valid" THEN FileConfig
                            ELSE DefaultConfig, env)

\* The values a line of cherry.env gives to a key.
ValuesFor(key) ==
    IF key \in StringKeys THEN {"org"}
    ELSE IF key = BoolKey THEN {"true", "yes"}
    ELSE IF key = NumberKey THEN {"14", "soon"}
    ELSE {"x"}

\* The lines of cherry.env: KEY=value, the same quoted and padded with
\* blanks, the same commented out, a key without '=', and a blank line.
EnvEntries ==
    {e \in [form : {"plain", "quoted", "comment"},
            key : EnvKeys \cup {UnknownKey},
            value : {"org", "true", "yes", "14", "soon", "x"}] :
        e.value \in ValuesFor(e.key)}
    \cup {[form |-> "bare", key |-> "GITHUB_OWNER", value |-> "x"],
          [form |-> "blank", key |-> UnknownKey, value |-> "x"]}

\* The text of a line.
Render(e) ==
    IF e.form = "plain" THEN <<e.key, "=", e.value>>
    ELSE IF e.form = "quoted"
    THEN <<" ", e.key, " ", "=", " ", DQuote, e.value, DQuote, " ">>
    ELSE IF e.form = "comment" THEN <<"#", e.key, "=", e.value>>
    ELSE IF e.form = "bare" THEN <<e.key>>
    ELSE <<" ">>

EnvFiles ==
    {[kind |-> k, entries |-> << >>, lines |-> << >>] :
        k \in {"absent", "unreadable"}}
    \cup {[kind |-> "present", entries |-> es,
           lines |-> [k \in 1..Len(es) |-> Render(es[k])]] :
          es \in UNION {[1..n -> EnvEntries] : n \in 0..MaxEnvLines}}

ConfigFiles == {"absent", "valid", "invalid"}

InitEnv ==
    /\ match_in \in [on : {TRUE}, file : ConfigFiles, env : EnvFiles]
    /\ match_out = ConfigOk(DefaultConfig)
    /\ pc = "load"
    /\ repo = Idle /\ result = OkUnit /\ last_call = Idle /\ ncalls = 0
    /\ apply_base = None
    /\ state = Idle /\ should_quit = FALSE /\ job = Idle
    /\ calls = << >> /\ github = Idle /\ scan = Idle /\ applied = {}

Load ==
    /\ pc = "load"
    /\ match_out' = load(match_in.file, match_in.env)
    /\ pc' = "loaded"
    /\ UNCHANGED <<GitVars, state, should_quit, job, calls, github, match_in,
                   ListVars, HistVars>>

NextEnv == Load

SpecEnv == InitEnv /\ [][NextEnv]_vars

\* ======================================================================
\* SpecSelect: a ListState under set_items_count, select_next and
\* select_previous in any order
\* ======================================================================

MaxCount == 4          \* largest items_count (SpecSelect)
MaxSelects == 5        \* ListState calls of one SpecSelect run

InitSelect ==
    /\ state = [on |-> TRUE, pr_list_state |-> NewListState]
    /\ last_call = [op |-> "new", count |-> 0, from |-> NoSelection]
    /\ ncalls = 0
    /\ pc = "select"
    /\ repo = Idle /\ result = OkUnit /\ apply_base = None
    /\ should_quit = FALSE /\ job = Idle /\ calls = << >> /\ github = Idle
    /\ match_in = Idle /\ match_out = FALSE /\ scan = Idle /\ applied = {}

\* One call of a ListState method that returns ls; last_call keeps the
\* method, its argument and the selection it found.
Selected(op, count, ls) ==
    /\ pc = "select"
    /\ ncalls < MaxSelects
    /\ state' = [state EXCEPT !.pr_list_state = ls]
    /\ last_call' = [op |-> op, count |-> count,
                     from |-> state.pr_list_state.selected]
    /\ ncalls' = ncalls + 1
    /\ UNCHANGED <<repo, result, apply_base, should_quit, pc, job, calls,
                   github, MatchVars, ListVars, HistVars>>

SetItemsCount ==
    \E count \in 0..MaxCount :
        Selected("set_items_count", count,
                 set_items_count(state.pr_list_state, count))

SelectNext == Selected("select_next", 0, select_next(state.pr_list_state))

SelectPrevious ==
    Selected("select_previous", 0, select_previous(state.pr_list_state))

NextSelect ==
    \/ SetItemsCount
    \/ SelectNext
    \/ SelectPrevious

SpecSelect == InitSelect /\ [][NextSelect]_vars

\* ======================================================================
\* SpecComment: the application, or add_cherry_pick_comment on its own
\* ======================================================================

MaxListed == 2         \* identifiers listed in one comment (SpecComment)

\* Identifiers of every length from none to MaxShaLen characters, the
\* k-th character being k.
IdTexts == {[k \in 1..n |-> k] : n \in 0..MaxShaLen}

IdLists == UNION {[1..n -> IdTexts] : n \in 0..MaxListed}

InitComment ==
    /\ \E l \in IdLists :
         job = [on |-> TRUE, pr |-> Pr(1), commit_shas |-> l]
    /\ github = InitGithub
    /\ calls = << >>
    /\ pc = "post"
    /\ repo = Idle /\ result = OkUnit /\ last_call = Idle /\ ncalls = 0
    /\ apply_base = None
    /\ state = Idle /\ should_quit = FALSE
    /\ match_in = Idle /\ match_out = FALSE /\ scan = Idle /\ applied = {}

\* One call of add_cherry_pick_comment with the identifiers of the job.
PostComment ==
    /\ pc = "post"
    /\ \E net \in {"ok", "fails"} :
         LET ret == add_comment_of(github, job.pr.number, TargetBranch,
                                   job.commit_shas, net)
         IN /\ github' = ret.github
            /\ calls' = Append(calls, Call("add_cherry_pick_comment",
                                           job.pr.number, ret.ok, TRUE))
    /\ pc' = "posted"
    /\ UNCHANGED <<GitVars, state, should_quit, job, MatchVars, ListVars, HistVars>>

InitCommentOrApp == InitApp \/ InitComment

NextComment == Next \/ PostComment

SpecComment == InitCommentOrApp /\ [][NextComment]_vars

\* ======================================================================
\* SpecMessages: the message setters of AppState in any order
\* ======================================================================

MaxSets == 3           \* setter calls of one SpecMessages run

\* The texts a caller sets.
MessageTexts ==
    {Message("Loading PRs", 0, << >>, << >>, ""),
     Message("Successfully cherry-picked PR", 1, << >>, << >>, "")}

InitMessages ==
    /\ state = NewAppState
    /\ calls = << >>
    /\ pc = "messages"
    /\ repo = Idle /\ result = OkUnit /\ last_call = Idle /\ ncalls = 0
    /\ apply_base = None
    /\ should_quit = FALSE /\ job = Idle /\ github = Idle
    /\ match_in = Idle /\ match_out = FALSE /\ scan = Idle /\ applied = {}

\* One setter has been called and has left AppState st.
SetterCalled(op, st) ==
    /\ pc = "messages"
    /\ Len(calls) < MaxSets
    /\ state' = st
    /\ calls' = Append(calls, Call(op, 0, TRUE, TRUE))
    /\ UNCHANGED <<GitVars, should_quit, pc, job, github, MatchVars, ListVars,
                   HistVars>>

SetError == \E m \in MessageTexts : SetterCalled("set_error", set_error(state, m))

SetLoading ==
    \E m \in MessageTexts : SetterCalled("set_loading", set_loading(state, m))

SetSuccess ==
    \E m \in MessageTexts : SetterCalled("set_success", set_success(state, m))

SetPrs ==
    \E prs \in {<< >>, <<Pr(1), Pr(2)>>} :
        SetterCalled("set_prs", set_prs(state, prs))

ClearMessages == SetterCalled("clear_messages", clear_messages(state))

NextMessages ==
    \/ SetError
    \/ SetLoading
    \/ SetSuccess
    \/ SetPrs
    \/ ClearMessages

SpecMessages == InitMessages /\ [][NextMessages]_vars

\* ======================================================================
\* SelectorApp::run_selector (src/ui/selector.rs) and SpecSelector
\* ======================================================================

NumOptions == 5        \* options the selector is opened with
MaxVisible == 2        \* max_visible of the Down arm (10 there), scaled down
MaxQuery == 2          \* characters typed into the search query

\* The options: the first two named "B", the others "a".
Options == [k \in 1..NumOptions |-> IF k <= 2 THEN <<"B">> ELSE <<"a">>]

\* SelectorApp::new
NewSelectorApp ==
    [should_quit |-> FALSE, selected_index |-> 0, scroll_offset |-> 0,
     search_query |-> << >>, search_mode |-> FALSE]

\* (0..n).collect()
RECURSIVE UpTo(_)
UpTo(n) == IF n = 0 THEN << >> ELSE Append(UpTo(n - 1), n - 1)

\* The indices of the options that contain the query, letters compared in
\* lower case.
RECURSIVE Matching(_, _, _)
Matching(options, query, k) ==
    IF k > Len(options) THEN << >>
    ELSE (IF contains(to_lowercase(options[k]), to_lowercase(query))
          THEN <<k - 1>> ELSE << >>) \o Matching(options, query, k + 1)

\* Top of the loop of run_selector: filtered_indices for this turn.
Refilter(app, filtered_indices, options) ==
    IF app.search_mode /\ app.search_query # << >>
    THEN Matching(options, app.search_query, 1)
    ELSE IF ~app.search_mode THEN UpTo(Len(options))
    ELSE filtered_indices

\* "Adjust selected index if it's out of bounds"
AdjustSelected(app, n) ==
    IF app.selected_index >= n /\ n # 0
    THEN [app EXCEPT !.selected_index = n - 1] ELSE app

\* render_selector: &filtered_indices[scroll_offset..end_index] panics
\* when scroll_offset is past end_index.
render_selector(app, filtered_indices, height) ==
    LET end_index == Min(app.scroll_offset + height, Len(filtered_indices))
    IN app.scroll_offset <= end_index

\* The match on key.code; Char(c) is a character of Chars.
handle_selector_key(app, code, n) ==
    CASE code = "Up" ->
           IF app.selected_index > 0
           THEN [app EXCEPT
                   !.selected_index = @ - 1,
                   !.scroll_offset =
                       IF app.selected_index - 1 < @
                       THEN app.selected_index - 1 ELSE @]
           ELSE app
      [] code = "Down" ->
           IF app.selected_index + 1 < n
           THEN [app EXCEPT
                   !.selected_index = @ + 1,
                   !.scroll_offset =
                       IF app.selected_index + 1 >= @ + MaxVisible
                       THEN app.selected_index + 1 - MaxVisible + 1 ELSE @]
           ELSE app
      [] code = "/" -> [app EXCEPT !.search_mode = TRUE, !.search_query = << >>]
      [] code = "Backspace" ->
           IF ~app.search_mode THEN app
           ELSE LET popped == IF app.search_query = << >> THEN << >>
                              ELSE SubSeq(app.search_query, 1,
                                          Len(app.search_query) - 1)
                IN [app EXCEPT !.search_query = popped,
                               !.search_mode = (popped # << >>)]
      [] code \in Chars ->
           IF app.search_mode
           THEN [app EXCEPT !.search_query = Append(@, code)] ELSE app
      [] OTHER -> app

\* The selector between two key presses: the app, filtered_indices and
\* what run_selector has returned, if it has.
Selector(app, filtered_indices, ret) ==
    [app |-> app, filtered_indices |-> filtered_indices, ret |-> ret]

NoReturn == [ok |-> FALSE, index |-> NoSelection]

\* One turn of the loop up to the poll: filter, adjust, draw.
Turn(app, filtered_indices, height) ==
    LET filtered == Refilter(app, filtered_indices, Options)
        adjusted == AdjustSelected(app, Len(filtered))
    IN [selector |-> Selector(adjusted, filtered, NoReturn),
        drawn |-> render_selector(adjusted, filtered, height)]

\* The heights of the list area render_selector can find.
Heights == {MaxVisible, MaxVisible + 1}

InitSelector ==
    /\ state = Turn(NewSelectorApp, UpTo(NumOptions), MaxVisible).selector
    /\ pc = "poll"
    /\ calls = << >>
    /\ repo = Idle /\ result = OkUnit /\ last_call = Idle /\ ncalls = 0
    /\ apply_base = None
    /\ should_quit = FALSE /\ job = Idle /\ github = Idle
    /\ match_in = Idle /\ match_out = FALSE /\ scan = Idle /\ applied = {}

\* The step leaves the selector variables as told and nothing else changes.
SelectorTo(sel, at) ==
    /\ state' = sel
    /\ pc' = at
    /\ UNCHANGED <<GitVars, should_quit, job, calls, github, MatchVars,
                   ListVars, HistVars>>

\* 'q' or Esc: break Err("Selection cancelled")
Cancel ==
    /\ pc = "poll"
    /\ SelectorTo([state EXCEPT !.app.should_quit = TRUE], "returned")

\* Enter: break Ok(filtered_indices[selected_index]) unless nothing is
\* listed; then the loop goes on as after any other key.
Choose ==
    /\ pc = "poll"
    /\ state.filtered_indices # << >>
    /\ SelectorTo([state EXCEPT
                     !.ret = [ok |-> TRUE,
                              index |-> state.filtered_indices[
                                            state.app.selected_index + 1]]],
                  "returned")

\* Any other key press, then the next turn of the loop up to its draw.
Press ==
    /\ pc = "poll"
    /\ \E code \in {"Up", "Down", "/", "Backspace", "Enter", "Tab"} \cup Chars,
          height \in Heights :
         LET n == Len(state.filtered_indices)
             next == Turn(handle_selector_key(state.app, code, n),
                          state.filtered_indices, height)
         IN /\ code = "Enter" => n = 0
            /\ (code \in Chars /\ state.app.search_mode) =>
                  Len(state.app.search_query) < MaxQuery
            /\ SelectorTo(next.selector,
                          IF next.drawn THEN "poll" ELSE "panicked")

NextSelector ==
    \/ Cancel
    \/ Choose
    \/ Press

SpecSelector == InitSelector /\ [][NextSelector]_vars

\* ======================================================================
\* SpecLabels: update_pr_labels run repeatedly on one pull request
\* ======================================================================

MaxUpdates == 3        \* update_pr_labels calls of one SpecLabels run

\* The label names a pull request can carry.
LabelNames == {"S12", EnvironmentTag, PendingTag, CompletedTag}

\* The label lists the issues API can hold: a set of names in some order,
\* no name twice, MaxLabels at most.
LabelSets ==
    {l \in UNION {[1..n -> LabelNames] : n \in 0..MaxLabels} :
        \A i, j \in 1..Len(l) : i # j => l[i] # l[j]}

InitLabels ==
    /\ \E l \in LabelSets :
         /\ github = [InitGithub EXCEPT !.labels[1] = l]
         /\ job = NewJob(Pr(1), [InitGithub EXCEPT !.labels[1] = l])
    /\ calls = << >>
    /\ pc = "update"
    /\ repo = Idle /\ result = OkUnit /\ last_call = Idle /\ ncalls = 0
    /\ apply_base = None
    /\ state = Idle /\ should_quit = FALSE
    /\ match_in = Idle /\ match_out = FALSE /\ scan = Idle /\ applied = {}

\* One call of update_pr_labels for pull request 1; nothing else touches
\* its labels in between.
UpdateLabels ==
    /\ pc = "update"
    /\ Len(calls) < MaxUpdates
    /\ \E net \in {"ok", "get_fails", "send_fails"} :
         LET ret == update_pr_labels(github, job.pr.number, net)
         IN /\ github' = ret.github
            /\ calls' = Append(calls, Call("update_pr_labels", job.pr.number,
                                           ret.ok, TRUE))
    /\ UNCHANGED <<GitVars, state, should_quit, pc, job, MatchVars, ListVars, HistVars>>

NextLabels == UpdateLabels

SpecLabels == InitLabels /\ [][NextLabels]_vars

\* ======================================================================
\* Claims about GitOperations (SpecGit)
\* ======================================================================

\* The spec's state names: Clean is RepositoryState::Clean, Conflicted is
\* the state cherry_pick reports conflicts in (CherryPickSequence).
Clean(r) == r.state = "Clean"
Conflicted(r) == r.state = "CherryPickSequence"

\* This step is a call of method op.
Calls(op) == ncalls' = ncalls + 1 /\ last_call'.op = op

\* C3: cherry_pick called while the repository is not Clean fails and
\* leaves the working copy, the index and the branch tip as they were.
C3_ApplyRequiresClean ==
    [][(Calls("cherry_pick") /\ ~Clean(repo)) =>
          /\ ~result'.ok
          /\ repo'.workdir = repo.workdir
          /\ repo'.index = repo.index
          /\ repo'.branches = repo.branches]_vars

\* C6: a replay without path conflicts on a Clean repository with the
\* committer identity configured creates
\* exactly one commit on the current branch, child of the previous tip,
\* with the original message; the tip moves to it, the state is Clean and
\* the result is {success: true, conflicts: [], commit_sha: the new id}.
C6_ApplyWithoutConflicts ==
    [][(/\ Calls("cherry_pick")
        /\ Clean(repo) /\ is_clean(repo) /\ get_signature(repo)
        /\ last_call'.lib.kind = "replayed"
        /\ last_call'.lib.conflicts = NoConflicts) =>
          /\ Len(repo'.odb) = Len(repo.odb) + 1
          /\ Tip(repo') = Len(repo'.odb)
          /\ repo'.odb[Tip(repo')].parent = Tip(repo)
          /\ repo'.odb[Tip(repo')].message = OriginalMessage(last_call'.sha)
          /\ Clean(repo')
          /\ result' = OkResult(TRUE, << >>, Tip(repo'))]_vars

\* C7: a replay with path conflicts on a Clean repository creates no
\* commit, leaves the branch tip, makes the state Conflicted, and the
\* result is {success: false, conflicts: the conflicting paths, none}.
C7_ApplyWithConflicts ==
    [][(/\ Calls("cherry_pick")
        /\ Clean(repo) /\ is_clean(repo)
        /\ last_call'.lib.kind = "replayed"
        /\ last_call'.lib.conflicts # NoConflicts) =>
          /\ repo'.odb = repo.odb
          /\ repo'.branches = repo.branches
          /\ Conflicted(repo')
          /\ result' = OkResult(FALSE,
                                SortedSeq(DOMAIN last_call'.lib.conflicts),
                                None)]_vars

\* C8: from Conflicted, abort_cherry_pick ends in Clean with no conflict
\* left, index and working copy equal to the tree of the branch tip, and
\* the tip unmoved; a conflicting apply does not move the tip, so when the
\* abort follows the apply the tip is the one the apply started from.
C8_AbortRestoresClean ==
    [][/\ (Calls("abort_cherry_pick") /\ Conflicted(repo)) =>
            /\ result'.ok
            /\ Clean(repo')
            /\ Tip(repo') = Tip(repo)
            /\ repo'.odb = repo.odb
            /\ repo'.index = [tree |-> HeadTree(repo), conflicts |-> NoConflicts]
            /\ repo'.workdir = [tree |-> HeadTree(repo), marks |-> {}]
            /\ apply_base # None => Tip(repo') = apply_base
       /\ (Calls("cherry_pick") /\ result'.ok /\ ~result'.success) =>
            /\ Tip(repo') = Tip(repo)
            /\ repo'.odb = repo.odb]_vars

\* C8 witness: an abort has run from Conflicted right after the apply that
\* conflicted, with conflicts still in the index when it began.
C8_Witness ==
    /\ last_call.op = "abort_cherry_pick"
    /\ last_call.from = "CherryPickSequence"
    /\ apply_base # None
    /\ Clean(repo)
    /\ is_clean(repo)

\* The message continue_cherry_pick commits with.
ContinueMessage(m) ==
    IF m = << >> THEN <<"Cherry-pick (resolved conflicts)", 0>> ELSE m

\* continue_cherry_pick has created exactly one commit with message m on
\* the current branch and the state is Clean.
Continued(m) ==
    /\ result'.ok
    /\ Len(repo'.odb) = Len(repo.odb) + 1
    /\ Tip(repo') = Len(repo'.odb)
    /\ result'.commit_sha = Tip(repo')
    /\ repo'.head = repo.head
    /\ repo'.odb[Tip(repo')].parent = Tip(repo)
    /\ repo'.odb[Tip(repo')].message = ContinueMessage(m)
    /\ Clean(repo')

\* continue_cherry_pick has failed, created no commit and left the state.
NotContinued ==
    /\ ~result'.ok
    /\ repo'.odb = repo.odb
    /\ repo'.branches = repo.branches
    /\ repo'.state = repo.state

\* C9 as stated: with unresolved conflicts in the index
\* continue_cherry_pick fails, creates no commit and leaves the state;
\* from Conflicted with none left it creates exactly one commit with the
\* given (or the default) message and the state becomes Clean.
C9_Original ==
    [][Calls("continue_cherry_pick") =>
          /\ has_conflicts(repo) => NotContinued
          /\ (Conflicted(repo) /\ ~has_conflicts(repo)) =>
                Continued(last_call'.message)]_vars

\* C9 amended: as C9, the commit being created only when user.name and
\* user.email are configured; without them the call fails, creates no
\* commit and leaves the state Conflicted.
C9_ContinueAfterResolution ==
    [][Calls("continue_cherry_pick") =>
          /\ has_conflicts(repo) => NotContinued
          /\ (Conflicted(repo) /\ ~has_conflicts(repo) /\ get_signature(repo)) =>
                Continued(last_call'.message)
          /\ (Conflicted(repo) /\ ~has_conflicts(repo) /\ ~get_signature(repo)) =>
                NotContinued]_vars

\* C9 witness: a continue from Conflicted, after the operator resolved the
\* conflicts of the apply, has committed.
C9_Witness ==
    /\ last_call.op = "continue_cherry_pick"
    /\ last_call.from = "CherryPickSequence"
    /\ result.ok
    /\ Clean(repo)
    /\ repo.workdir.tree # HeadTree(InitRepo(FALSE, TRUE, TRUE))
    /\ repo.odb[Tip(repo)].tree = repo.workdir.tree

\* C16: a commit id returned by a successful cherry_pick names a commit of
\* the repository that is the tip of the current branch and carries the
\* message of the commit that was applied.
C16_RoundTripIdentifiers ==
    [][(Calls("cherry_pick") /\ result'.ok /\ result'.success) =>
          /\ result'.commit_sha \in 1..Len(repo'.odb)
          /\ result'.commit_sha = Tip(repo')
          /\ repo'.odb[result'.commit_sha].message =
                OriginalMessage(last_call'.sha)]_vars

\* C17: when repo.state() after the replay is neither Clean nor the
\* conflict state, cherry_pick returns an error: no CherrypickResult,
\* neither a conflict nor a success.
C17_UnexpectedStateIsFatal ==
    [][(/\ Calls("cherry_pick")
        /\ last_call'.lib.kind = "replayed"
        /\ ~Clean(repo') /\ ~Conflicted(repo')) =>
          /\ ~result'.ok
          /\ result'.error = "Unexpected repository state after cherry-pick"
          /\ ~result'.success
          /\ result'.conflicts = << >>
          /\ result'.commit_sha = None]_vars

\* C17 witness: a replay that left conflicting paths and the state
\* CherryPick has been answered with the error.
C17_Witness ==
    /\ last_call.op = "cherry_pick"
    /\ last_call.lib.kind = "replayed"
    /\ last_call.lib.conflicts # NoConflicts
    /\ repo.state = "CherryPick"
    /\ ~result.ok

\* find_branch(name, BranchType::Local) and find_branch("origin/" + name,
\* BranchType::Remote) succeed.
FoundLocal(r, b) == b \in DOMAIN r.branches

FoundAtOrigin(r, b) == b \in DOMAIN r.remotes

C10_QualificationPredicate ==
    pc = "matched" =>
        LET L == {match_in.labels[k] : k \in 1..Len(match_in.labels)}
            cfg == match_in.config
        IN match_out <=> /\ \E l \in L : is_match(cfg.sprint_pattern, l)
                         /\ cfg.environment \in L
                         /\ cfg.pending_tag \in L

\* C10 witness: true was returned for a list of three distinct labels, one
\* per criterion, under the default tags.
C10_Witness ==
    /\ pc = "matched"
    /\ match_out
    /\ match_in.labels = <<SprintLabel, EnvLabel, PendingLabel>>
    /\ match_in.config = [sprint_pattern |-> [anchored |-> FALSE],
                          environment |-> EnvLabel,
                          pending_tag |-> PendingLabel]

\* ======================================================================
\* Claims about cherry_pick_pr (Spec)
\* ======================================================================

Last(seq) == seq[Len(seq)]

IsPick(c) == c.op = "cherry_pick"
IsRemote(c) == c.op \in {"update_pr_labels", "add_cherry_pick_comment"}

\* The cherry_pick calls, and the GitHub calls, of the cherry_pick_pr that
\* ran last.
Picks == SelectSeq(calls, IsPick)
RemoteCalls == SelectSeq(calls, IsRemote)

Applied(c) == c.ok /\ c.success

\* cherry_pick_pr has returned after the apply of a commit reported
\* conflicting paths.
StoppedOnConflict ==
    /\ pc = "keys" /\ job.on /\ calls # << >>
    /\ IsPick(Last(calls)) /\ Last(calls).ok /\ ~Last(calls).success
    /\ result.conflicts # << >>

\* The message names commit sha (by its shortened id).
Mentions(m, sha) == m.sha = short_sha(ShaText(sha))

C2_NoApplyWhileConflicted ==
    [][Conflicted(repo) =>
          ~(Len(calls') = Len(calls) + 1 /\ IsPick(Last(calls')))]_vars

\* C4: once an apply of the running cherry_pick_pr has ended in a conflict
\* or an error, that apply is its last call, cherry_pick_pr has returned,
\* update_pr_labels and add_cherry_pick_comment were not called, and the
\* remote labels and comments are what they were when it started.
C4_NoRemoteUpdateAfterFailure ==
    \A k \in 1..Len(calls) :
        (job.on /\ IsPick(calls[k]) /\ ~Applied(calls[k])) =>
            /\ k = Len(calls)
            /\ pc = "keys"
            /\ RemoteCalls = << >>
            /\ github = job.github0

\* C4 witness: the second commit of a longer pull request conflicted after
\* the first was applied.
C4_Witness ==
    /\ StoppedOnConflict
    /\ Len(Picks) = 2
    /\ Len(job.pr.commits) > 2
    /\ Len(job.cherry_picked_commits) = 1
    /\ github = InitGithub

\* Every commit of the pull request of the running cherry_pick_pr applied.
AllApplied ==
    /\ job.on /\ calls # << >>
    /\ Len(Picks) = Len(job.pr.commits)
    /\ \A k \in 1..Len(Picks) : Applied(Picks[k])

\* C5: after every commit applied, cherry_pick_pr calls update_pr_labels
\* and then add_cherry_pick_comment, once each, whether or not either
\* fails, and returns with the success message set, the screen on the PR
\* list and no error message.
C5_BestEffortPostSuccess ==
    AllApplied =>
        LET ops == [k \in 1..Len(RemoteCalls) |-> RemoteCalls[k].op]
        IN /\ pc \in {"labels", "comment", "keys"}
           /\ pc = "labels" => ops = << >>
           /\ pc = "comment" => ops = <<"update_pr_labels">>
           /\ pc = "keys" =>
                /\ ops = <<"update_pr_labels", "add_cherry_pick_comment">>
                /\ \A k \in 1..2 : RemoteCalls[k].arg = job.pr.number
                /\ state.success_message.kind = "Successfully cherry-picked PR"
                /\ state.success_message.pr = job.pr.number
                /\ state.current_screen = "PrList"
                /\ state.error_message = NoMessage

\* C5 witness: cherry_pick_pr has returned after all commits of a pull
\* request of several commits applied and both GitHub calls failed.
C5_Witness ==
    /\ pc = "keys"
    /\ AllApplied
    /\ Len(job.pr.commits) > 1
    /\ Len(RemoteCalls) = 2
    /\ \A k \in 1..2 : ~RemoteCalls[k].ok
    /\ state.success_message # NoMessage

\* ======================================================================
\* Claims about list_matching_prs (SpecList)
\* ======================================================================

\* The effective update time of the claims: updated_at, else created_at,
\* else now.
EffectiveTime(item) ==
    IF item.updated_at # None THEN item.updated_at
    ELSE IF item.created_at # None THEN item.created_at
    ELSE Clock.now

\* The cutoff T = now - days_back.
Cutoff == Clock.now - Clock.days_back

\* The position of the first item older than the cutoff; past the end if
\* there is none.
FirstOld(items) ==
    IF \E k \in 1..Len(items) : EffectiveTime(items[k]) < Cutoff
    THEN CHOOSE k \in 1..Len(items) :
            /\ EffectiveTime(items[k]) < Cutoff
            /\ \A j \in 1..(k - 1) : EffectiveTime(items[j]) >= Cutoff
    ELSE Len(items) + 1

\* The page that delivers the item at position k.
PageOf(k) == ((k - 1) \div PerPage) + 1

Qualifies(item) ==
    pr_matches_criteria(DefaultTags, item.labels, DefaultTags.sprint_pattern)

RequestsOf(kinds) ==
    {k \in 1..Len(scan.requests) : scan.requests[k].kind \in kinds}

\* The numbers of the pull requests returned, in the order returned.
Returned == [j \in 1..Len(scan.result.prs) |-> scan.result.prs[j].number]

ReturnedOk == scan.on /\ scan.at = "returned" /\ scan.result.ok

\* C11: with f the first item older than the cutoff, no label or commit
\* fetch is issued for item f or a later one, no page after the page of f
\* is requested, and a scan that returns a list returns every qualifying
\* item before f.
C11_SelectionEarlyStop ==
    scan.on =>
        LET f == FirstOld(scan.items)
        IN f <= Len(scan.items) =>
             /\ \A k \in RequestsOf({"labels", "commits"}) :
                   scan.requests[k].arg < f
             /\ \A k \in RequestsOf({"page"}) :
                   scan.requests[k].arg <= PageOf(f)
             /\ ReturnedOk =>
                   \A k \in 1..(f - 1) :
                       Qualifies(scan.items[k]) =>
                           \E j \in 1..Len(Returned) : Returned[j] = k

\* C11 witness: the scan returned at item 2, older than the cutoff, with
\* item 1 in the result, a qualifying recent item 3 and a page not asked for.
C11_Witness ==
    /\ ReturnedOk
    /\ FirstOld(scan.items) = 2
    /\ Len(scan.items) > PerPage
    /\ Returned = <<1>>
    /\ EffectiveTime(scan.items[3]) >= Cutoff
    /\ Qualifies(scan.items[3])

\* C12: the list returned holds exactly the scanned items (those whose
\* labels were fetched) that qualify, each once, in the order delivered.
C12_SelectionOrder ==
    ReturnedOk =>
        /\ \A j \in 1..(Len(Returned) - 1) : Returned[j] < Returned[j + 1]
        /\ \A j \in 1..Len(Returned) :
              /\ Returned[j] \in 1..Len(scan.items)
              /\ scan.result.prs[j].labels = scan.items[Returned[j]].labels
        /\ {Returned[j] : j \in 1..Len(Returned)} =
              {scan.requests[k].arg : k \in RequestsOf({"labels"})}
                \cap {k \in 1..Len(scan.items) : Qualifies(scan.items[k])}

\* C12 witness: items 1 and 3, of different pages, were returned in that
\* order and item 2 between them was scanned and left out.
C12_Witness ==
    /\ ReturnedOk
    /\ Returned = <<1, 3>>
    /\ PageOf(1) # PageOf(3)
    /\ ~Qualifies(scan.items[2])

\* C13: a failed remote call is the last one issued, the scan has
\* returned, and it returned the error and no pull request.
C13_SelectionFailure ==
    scan.on =>
        \A k \in 1..Len(scan.requests) :
            ~scan.requests[k].ok =>
                /\ k = Len(scan.requests)
                /\ scan.at = "returned"
                /\ ~scan.result.ok
                /\ scan.result.prs = << >>

\* C13 witness: a label fetch failed after a pull request had been
\* collected.
C13_Witness ==
    /\ scan.on /\ scan.at = "returned"
    /\ ~scan.result.ok
    /\ scan.requests # << >>
    /\ scan.requests[Len(scan.requests)].kind = "labels"
    /\ scan.matching_prs # << >>

\* C14: with a sprint pattern that is not a valid regular expression no
\* remote request is issued.
C14_ConfigFailFast ==
    (scan.on /\ ~scan.pattern_ok) => scan.requests = << >>

\* ======================================================================
\* Claims about update_pr_labels (SpecLabels)
\* ======================================================================

\* How often label x is in the list.
Count(labels, x) == Cardinality({k \in 1..Len(labels) : labels[k] = x})

\* The update_pr_labels calls made so far that succeeded.
Updates == {k \in 1..Len(calls) : calls[k].op = "update_pr_labels" /\ calls[k].ok}

\* C15: a successful update_pr_labels leaves the pending label absent and
\* the completed label present exactly once, and one that follows a
\* successful one leaves the label list as it was.
C15_IdempotentLabelUpdate ==
    [][(pc = "update" /\ Len(calls') = Len(calls) + 1 /\ Last(calls').ok) =>
          LET before == github.labels[job.pr.number]
              after == github'.labels[job.pr.number]
          IN /\ Count(after, PendingTag) = 0
             /\ Count(after, CompletedTag) = 1
             /\ Updates # {} => after = before]_vars

\* C15 witness: two updates have succeeded on a pull request that began
\* with the pending and without the completed label.
C15_Witness ==
    /\ pc = "update"
    /\ Cardinality(Updates) = 2
    /\ Count(job.github0.labels[1], PendingTag) = 1
    /\ Count(job.github0.labels[1], CompletedTag) = 0
    /\ Count(github.labels[1], CompletedTag) = 1

\* ======================================================================
\* Claims about the checkout and the retries of cherry_pick_pr
\* ======================================================================

IsCheckout(c) == c.op = "checkout_branch"

\* C19: once the checkout of the target branch has failed, cherry_pick_pr
\* has returned with the error screen and the message "Failed to checkout
\* target branch"; the failed checkout is the only call it made: no second
\* checkout, no cherry_pick, no label update, no comment.
C19_CheckoutFailureStops ==
    \A k \in 1..Len(calls) :
        (job.on /\ IsCheckout(calls[k]) /\ ~calls[k].ok) =>
            /\ Len(calls) = 1
            /\ pc = "keys"
            /\ state.current_screen = "Error"
            /\ state.error_message.kind = "Failed to checkout target branch"
            /\ state.error_message.error = result.error
            /\ github = job.github0

\* C19 witness: the checkout failed for a pull request that has commits
\* to apply.
C19_Witness ==
    /\ job.on /\ pc = "keys"
    /\ Len(calls) = 1 /\ IsCheckout(calls[1]) /\ ~calls[1].ok
    /\ Len(job.pr.commits) > 0
    /\ state.current_screen = "Error"

\* How many calls of op the running cherry_pick_pr has made.
CallCount(op) == Cardinality({k \in 1..Len(calls) : calls[k].op = op})

\* C20: within one cherry_pick_pr the checkout, the label update and the
\* comment are called at most once and the k-th cherry_pick applies the
\* k-th commit of the pull request, so no commit is applied twice; within
\* one list_matching_prs no request is issued again after it failed.
C20_NoAutomaticRetries ==
    /\ job.on =>
          /\ CallCount("checkout_branch") <= 1
          /\ CallCount("update_pr_labels") <= 1
          /\ CallCount("add_cherry_pick_comment") <= 1
          /\ Len(Picks) <= Len(job.pr.commits)
          /\ \A k \in 1..Len(Picks) : Picks[k].arg = job.pr.commits[k]
          /\ \A j, k \in 1..Len(job.pr.commits) :
                job.pr.commits[j] = job.pr.commits[k] => j = k
    /\ scan.on =>
          \A j, k \in 1..Len(scan.requests) :
              (j < k /\ ~scan.requests[j].ok) =>
                  <<scan.requests[k].kind, scan.requests[k].arg>> #
                      <<scan.requests[j].kind, scan.requests[j].arg>>

\* C20 witness: cherry_pick_pr applied two or more commits, its label
\* update failed, and it went on to the comment and returned.
C20_Witness ==
    /\ job.on /\ pc = "keys"
    /\ Len(job.pr.commits) >= 2
    /\ Len(Picks) = Len(job.pr.commits)
    /\ \E k \in 1..Len(calls) :
          calls[k].op = "update_pr_labels" /\ ~calls[k].ok
    /\ Last(calls).op = "add_cherry_pick_comment"

\* ======================================================================
\* Claims about the order of execution (Spec)
\* ======================================================================

\* The positions inside cherry_pick_pr.
InFlight == {"checkout", "pick", "labels", "comment"}

\* cherry_pick_pr has run to its end: the checkout failed, an apply failed
\* or conflicted, or the comment was posted.
Completed(cs) ==
    /\ cs # << >>
    /\ \/ IsCheckout(Last(cs)) /\ ~Last(cs).ok
       \/ IsPick(Last(cs)) /\ ~Applied(Last(cs))
       \/ Last(cs).op = "add_cherry_pick_comment"

\* C21: the working copy and the labels and comments change only inside
\* cherry_pick_pr, one call per step and never both in one step, for the
\* pull request the invocation started with; a key is read, and another
\* cherry_pick_pr starts, only when the previous one has run to its end.
C21_StrictlySequential ==
    [][/\ (repo' # repo \/ github' # github) =>
             /\ pc \in InFlight
             /\ job.on /\ job'.on /\ job'.pr = job.pr
             /\ calls' = Append(calls, Last(calls'))
             /\ ~(repo' # repo /\ github' # github)
             /\ repo' # repo => Last(calls').op \in {"checkout_branch", "cherry_pick"}
             /\ github' # github => IsRemote(Last(calls'))
       /\ pc \in InFlight => (state'.prs = state.prs /\ job'.pr = job.pr)
       /\ (pc = "keys" /\ job.on) => Completed(calls)
       /\ (pc' = "checkout" /\ pc # "checkout") =>
             /\ pc = "keys"
             /\ calls' = << >>
             /\ repo' = repo /\ github' = github]_vars

\* C21 witness: a second cherry_pick_pr has run to the comment after the
\* first one had returned.
C21_Witness ==
    /\ pc = "keys" /\ job.on
    /\ ncalls = 2
    /\ Len(Picks) >= 1
    /\ Last(calls).op = "add_cherry_pick_comment"

\* ======================================================================
\* Claims about the comment (SpecComment)
\* ======================================================================

\* line is the first ShortLen characters of text, or all of a shorter text.
IsShortOf(line, text) ==
    IF Len(text) >= ShortLen
    THEN Len(line) = ShortLen /\ \A i \in 1..ShortLen : line[i] = text[i]
    ELSE line = text

\* The comment posted last on the pull request of the job.
PostedComment == Last(github.comments[job.pr.number])

\* C22: a comment that add_cherry_pick_comment posted names the target
\* branch and has one line per identifier it was given, in their order,
\* each the first 8 characters of an identifier of 8 or more characters
\* and the whole of a shorter one; the comment of cherry_pick_pr lists
\* the commits it created, one per commit of the pull request, each the
\* child of the one before.
C22_CommentBody ==
    /\ (pc = "posted" /\ Last(calls).ok) =>
          /\ PostedComment.target = TargetBranch
          /\ Len(PostedComment.lines) = Len(job.commit_shas)
          /\ \A k \in 1..Len(job.commit_shas) :
                IsShortOf(PostedComment.lines[k], job.commit_shas[k])
    /\ (pc = "keys" /\ job.on /\ calls # << >> /\ Last(calls).ok
           /\ Last(calls).op = "add_cherry_pick_comment") =>
          LET made == job.cherry_picked_commits
          IN /\ PostedComment.target = TargetBranch
             /\ Len(PostedComment.lines) = Len(job.pr.commits)
             /\ Len(made) = Len(job.pr.commits)
             /\ \A k \in 1..Len(made) :
                   /\ IsShortOf(PostedComment.lines[k], ShaText(made[k]))
                   /\ made[k] \in 1..Len(repo.odb)
                   /\ repo.odb[made[k]].message = CommitMessage(job.pr.commits[k])
                   /\ k > 1 => repo.odb[made[k]].parent = made[k - 1]

\* C22 witness: a comment lists an identifier longer than 8 characters
\* after one shorter than 8.
C22_Witness ==
    /\ pc = "posted" /\ Last(calls).ok
    /\ Len(job.commit_shas) = 2
    /\ Len(job.commit_shas[1]) \in 1..(ShortLen - 1)
    /\ Len(job.commit_shas[2]) > ShortLen
    /\ Len(PostedComment.lines[2]) = ShortLen

\* ======================================================================
\* Claims about ListState (SpecSelect)
\* ======================================================================

\* A ListState method other than op was called, or none.
SelectCalls(op) == ncalls' = ncalls + 1 /\ last_call'.op = op

\* C23: with n items, select_next moves the selection from i to i + 1 and
\* from n - 1 to 0, select_previous from i to i - 1 and from 0 to n - 1,
\* and either selects 0 when nothing is selected; with no items neither
\* changes the selection.
C23_SelectionWraps ==
    [][LET ls == state.pr_list_state
           n == ls.items_count
           i == ls.selected
           j == state'.pr_list_state.selected
       IN /\ (SelectCalls("select_next") \/ SelectCalls("select_previous")) =>
                /\ state'.pr_list_state.items_count = n
                /\ n = 0 => j = i
                /\ (n > 0 /\ i = NoSelection) => j = 0
          /\ (SelectCalls("select_next") /\ n > 0 /\ i # NoSelection) =>
                j = IF i = n - 1 THEN 0 ELSE i + 1
          /\ (SelectCalls("select_previous") /\ n > 0 /\ i # NoSelection) =>
                j = IF i = 0 THEN n - 1 ELSE i - 1]_vars

\* C23 witness: select_previous has wrapped from the first to the last of
\* three or more items.
C23_Witness ==
    /\ pc = "select"
    /\ last_call.op = "select_previous"
    /\ last_call.from = 0
    /\ state.pr_list_state.items_count >= 3
    /\ state.pr_list_state.selected = state.pr_list_state.items_count - 1

\* The selection of ls is None when it has no items and else an index
\* below items_count.
InRange(ls) ==
    IF ls.items_count = 0 THEN ls.selected = NoSelection
    ELSE ls.selected \in 0..(ls.items_count - 1)

\* C24: after any sequence of set_items_count, select_next and
\* select_previous from ListState::new the selection is None exactly when
\* there are no items and else an index below items_count;
\* set_items_count(c) moves a selection of c or more to c - 1 when c > 0
\* and clears the selection when c = 0.
C24_SelectionInRange ==
    [][/\ InRange(state.pr_list_state)
       /\ InRange(state'.pr_list_state)
       /\ SelectCalls("set_items_count") =>
             LET c == last_call'.count
                 i == state.pr_list_state.selected
                 j == state'.pr_list_state.selected
             IN /\ state'.pr_list_state.items_count = c
                /\ c = 0 => j = NoSelection
                /\ (c > 0 /\ i # NoSelection /\ i >= c) => j = c - 1
                /\ (c > 0 /\ i # NoSelection /\ i < c) => j = i
                /\ (c > 0 /\ i = NoSelection) => j = 0]_vars

\* C24 witness: set_items_count has moved a selection past the new end to
\* the new last item.
C24_Witness ==
    /\ pc = "select"
    /\ last_call.op = "set_items_count"
    /\ last_call.count = 2
    /\ last_call.from = 3
    /\ state.pr_list_state = [selected |-> 1, items_count |-> 2]

\* ======================================================================
\* Claims about Config::load (SpecEnv)
\* ======================================================================

\* The configuration cherry.env is applied on top of.
PriorConfig == IF match_in.file = "valid" THEN FileConfig ELSE DefaultConfig

\* The field a key stands for, as the text cherry.env would hold.
FieldText(cfg, key) ==
    IF key = "GITHUB_OWNER" THEN cfg.github.owner
    ELSE IF key = "GITHUB_REPO" THEN cfg.github.repo
    ELSE IF key = "BASE_BRANCH" THEN cfg.github.base_branch
    ELSE IF key = "TARGET_BRANCH" THEN cfg.github.target_branch
    ELSE IF key = "CHERRY_PICK_SOURCE_BRANCH"
    THEN cfg.github.cherry_pick_source_branch
    ELSE IF key = "BRANCH_NAME_TEMPLATE" THEN cfg.github.branch_name_template
    ELSE IF key = "ONLY_FORKED_REPOS"
    THEN <<IF cfg.ui.only_forked_repos THEN "true" ELSE "false">>
    ELSE <<CHOOSE n \in DOMAIN Numerals : Numerals[n] = cfg.ui.days_back>>

\* The lines of cherry.env that give key a value.
LinesFor(key) ==
    {k \in 1..Len(match_in.env.entries) :
        /\ match_in.env.entries[k].form \in {"plain", "quoted"}
        /\ match_in.env.entries[k].key = key}

\* The largest of a non-empty set of line numbers.
LastOf(S) == CHOOSE k \in S : \A j \in S : j <= k

Untracked(r) == r.workdir.tree \ r.index.tree

\* C26: is_clean returns Ok(true) exactly when the status list is empty:
\* the working directory and the index hold what HEAD holds, so it is
\* true for a freshly initialised repository, false while an untracked
\* file exists and true again once the file is removed.
C26_IsCleanReflectsWorkingCopy ==
    last_call.op = "is_clean" =>
        /\ result.ok
        /\ result.success <=> statuses(repo) = {}
        /\ result.success <=> /\ repo.workdir.tree = HeadTree(repo)
                               /\ repo.index.tree = HeadTree(repo)
        /\ Untracked(repo) # {} => ~result.success
        /\ repo = FreshRepo => result.success

\* C26 witness: is_clean has answered false on a freshly initialised
\* repository with one untracked file.
C26_Witness ==
    /\ pc = "status"
    /\ last_call.op = "is_clean"
    /\ repo = [FreshRepo EXCEPT !.workdir.tree = {1}]
    /\ ~result.success

\* ======================================================================
\* Claims about render_branch_name (SpecTemplate)
\* ======================================================================

\* The template with the task id in the place of every placeholder.
Rendered(segments, task_id) ==
    Flatten([k \in 1..Len(segments) |->
                IF segments[k] = Placeholder THEN task_id ELSE segments[k]])

\* How many placeholders the template holds.
Placeholders(segments) ==
    Cardinality({k \in 1..Len(segments) : segments[k] = Placeholder})

\* C27: render_branch_name returns the template with every placeholder
\* replaced by the task id, and the template itself when it holds no
\* placeholder.
C27_RenderBranchName ==
    pc = "rendered" =>
        /\ match_out = Rendered(match_in.segments, match_in.task_id)
        /\ Placeholders(match_in.segments) = 0 =>
              match_out = Flatten(match_in.segments)

\* C27 witness: a template with two placeholders, the first right after
\* the beginning of one, rendered with a plain task id.
C27_Witness ==
    /\ pc = "rendered"
    /\ match_in.segments = <<<<"{", "t">>, Placeholder, Placeholder>>
    /\ match_in.task_id = <<"A", "-", "1">>
    /\ match_out = <<"{", "t", "A", "-", "1", "A", "-", "1">>

\* ======================================================================
\* Claims about the failures and conflicts of cherry_pick (SpecGit)
\* ======================================================================

\* C28: a cherry_pick that is called on a Clean repository without local
\* modifications and returns an error leaves the branch tip, the index,
\* the working copy and the repository state as they were.
C28_ErrorLeavesRepository ==
    [][(/\ Calls("cherry_pick")
        /\ Clean(repo) /\ is_clean(repo)
        /\ ~result'.ok) =>
          /\ repo'.branches = repo.branches
          /\ repo'.head = repo.head
          /\ repo'.index = repo.index
          /\ repo'.workdir = repo.workdir
          /\ repo'.state = repo.state]_vars

\* The paths a Vec<String> lists.
Listed(seq) == {seq[k] : k \in 1..Len(seq)}

\* C30: a conflict outcome of cherry_pick (Ok with success = false)
\* carries a non-empty conflicts list that holds every path that is
\* conflicted in the index, with or without an entry on our side.
C30_ConflictsComplete ==
    [][(Calls("cherry_pick") /\ result'.ok /\ ~result'.success) =>
          /\ result'.conflicts # << >>
          /\ Listed(result'.conflicts) = DOMAIN repo'.index.conflicts]_vars

\* ======================================================================
\* Claims about repeated selection (Spec)
\* ======================================================================

\* C29: once cherry_pick_pr has succeeded for a pull request, and until
\* the list is loaded again, no cherry_pick of a later cherry_pick_pr for
\* the same pull request creates a commit.
C29_NoDoubleApplication ==
    [][(pc = "pick" /\ job.pr.number \in applied) =>
          Len(repo'.odb) = Len(repo.odb)]_vars

\* ======================================================================
\* Claims about the frame of update_pr_labels (SpecLabels)
\* ======================================================================

\* A label that is neither the pending nor the completed label.
IsOtherLabel(label) == label \notin {PendingTag, CompletedTag}

\* C31: a successful update_pr_labels keeps every label other than the
\* pending and the completed label exactly as read, in the same relative
\* order (a completed label already there keeps its place among them).
C31_OnlyPendingAndCompletedChange ==
    [][(pc = "update" /\ Len(calls') = Len(calls) + 1 /\ Last(calls').ok) =>
          LET before == github.labels[job.pr.number]
              after == github'.labels[job.pr.number]
          IN /\ SelectSeq(after, IsOtherLabel) = SelectSeq(before, IsOtherLabel)
             /\ \/ after = SelectSeq(before, LAMBDA l : l # PendingTag)
                \/ after = Append(SelectSeq(before, IsOtherLabel),
                                  CompletedTag)]_vars

\* C31 witness: the first update succeeded on a pull request whose pending
\* label stood between two other labels.
C31_Witness ==
    /\ pc = "update"
    /\ Len(calls) = 1 /\ calls[1].ok
    /\ job.github0.labels[1] = <<"S12", PendingTag, EnvironmentTag>>
    /\ github.labels[1] = <<"S12", EnvironmentTag, CompletedTag>>

\* ======================================================================
\* Claims about the commits of a listed pull request (SpecCore)
\* ======================================================================

\* The cherry_pick calls of the cherry_pick_pr at hand.
PickCalls == {k \in 1..Len(calls) : calls[k].op = "cherry_pick"}

NoRequestTwice ==
    \A j, k \in 1..Len(scan.requests) :
        (/\ scan.requests[j].kind = scan.requests[k].kind
         /\ scan.requests[j].arg = scan.requests[k].arg) => j = k

\* Commits are asked for of qualifying items whose labels were fetched.
CommitFetchesQualify ==
    \A k \in RequestsOf({"commits"}) :
        /\ Qualifies(scan.items[scan.requests[k].arg])
        /\ \E j \in 1..(k - 1) :
              scan.requests[j] = Request("labels", scan.requests[k].arg, TRUE)

\* A scan that returned a list stood at the first item older than the
\* cutoff, or past the last item of a page with no page after it.
EndedWhereClaimed ==
    ReturnedOk =>
        /\ scan.pos = FirstOld(scan.items)
        /\ scan.pos > Len(scan.items) => scan.page_end = Len(scan.items)

\* C33: list_matching_prs returns, whatever the pages hold; it ends at
\* the first item older than the cutoff or when there is no next page,
\* fetches the labels of an item and the commits of a qualifying item at
\* most once, and requests no page twice.
C33_ScanTerminates ==
    /\ <>(scan.at = "returned")
    /\ [](NoRequestTwice /\ CommitFetchesQualify /\ EndedWhereClaimed)

\* C33 witness: a scan over two full pages returned after the last item,
\* having fetched the commits of a pull request of each page.
C33_Witness ==
    /\ ReturnedOk
    /\ Len(scan.items) = 2 * PerPage
    /\ scan.pos > Len(scan.items)
    /\ Cardinality(RequestsOf({"page"})) = 2
    /\ \E j, k \in RequestsOf({"commits"}) :
          PageOf(scan.requests[j].arg) = 1 /\ PageOf(scan.requests[k].arg) = 2

\* ======================================================================
\* Claims about the filtered list (Spec)
\* ======================================================================

\* Text pat occurs in text str, letters compared without regard to case.
OccursIn(pat, str) ==
    \E k \in 0..(Len(str) - Len(pat)) :
        \A i \in 1..Len(pat) : Lower(str[k + i]) = Lower(pat[i])

\* The pull request at index i (from 0) is one the filter text q shows.
Passes(prs, i, q) ==
    \/ q = << >>
    \/ OccursIn(q, prs[i + 1].title)
    \/ OccursIn(q, prs[i + 1].author)
    \/ OccursIn(q, NumberText(prs[i + 1].number))

\* C34: display_indices is strictly increasing, holds exactly the indices
\* of the pull requests that pass the filter (all of them without one),
\* the list selection counts as many items as display_indices has, and
\* the pull request cherry_pick_pr is entered with on Enter is the one at
\* the selected row.
C34_DisplayIndices ==
    LET idx == state.display_indices
        ls == state.pr_list_state
    IN /\ \A j \in 1..(Len(idx) - 1) : idx[j] < idx[j + 1]
       /\ {idx[j] : j \in 1..Len(idx)} =
             {i \in 0..(Len(state.prs) - 1) :
                 Passes(state.prs, i, state.filter_query)}
       /\ ls.items_count = Len(idx)
       /\ pc = "checkout" =>
             /\ ls.selected \in 0..(Len(idx) - 1)
             /\ job.pr = state.prs[idx[ls.selected + 1] + 1]

\* C34 witness: with the filter "B" set, the one row shown is the second
\* pull request, and Enter on it has entered cherry_pick_pr.
C34_Witness ==
    /\ pc = "checkout"
    /\ state.filter_query = <<"B">>
    /\ Len(state.prs) = 2
    /\ state.display_indices = <<1>>
    /\ job.pr.number = 2

\* ======================================================================
\* Claims about the messages of AppState (SpecMessages)
\* ======================================================================

\* The messages of AppState that are Some.
MessagesSet ==
    {f \in {"error_message", "loading_message", "success_message"} :
        state[f] # NoMessage}

\* C35: at most one of error_message, loading_message and
\* success_message is Some.
C35_AtMostOneMessage == Cardinality(MessagesSet) <= 1

\* C35 witness: set_error was called while the success message set by
\* the call before it stood, and only the error message is left.
C35_Witness ==
    /\ pc = "messages"
    /\ Len(calls) = 3
    /\ calls[1].op = "set_loading"
    /\ calls[2].op = "set_success"
    /\ calls[3].op = "set_error"
    /\ MessagesSet = {"error_message"}

\* ======================================================================
\* Claims about the selector (SpecSelector)
\* ======================================================================

\* C36: whenever the selector has been drawn or is about to be,
\* scroll_offset is at most the number of filtered options, and when
\* Enter has returned a choice selected_index was below that number.
C36_SelectorWindow ==
    /\ pc \in {"poll", "panicked"} =>
          state.app.scroll_offset <= Len(state.filtered_indices)
    /\ (pc = "returned" /\ state.ret.ok) =>
          state.app.selected_index < Len(state.filtered_indices)

====
